---------------------------- MODULE Spec2Model ----------------------------
(***************************************************************************)
(* A model of the shaping-lab online behavioural-shaping trainer.          *)
(*                                                                         *)
(* Two subsystems of the repository are modelled:                          *)
(*                                                                         *)
(*  - the React application: App (src/src/App.tsx, src/unnamed/part_014),  *)
(*    RewardManager (src/src/RewardManager.ts, second revision, lines      *)
(*    182-386), NeuralNetworkWrapper (src/unnamed/part_015), CanvasManager *)
(*    (src/src/CanvasManager.ts) and AutoTrainer (src/unnamed/part_007);   *)
(*    its behaviours are Spec (the controls and the control loop),         *)
(*    SpecAuto (the demo controls and the AutoTrainer), SpecShape (the     *)
(*    reward shaping under the settings panel's amounts), SpecWrapper      *)
(*    (the NeuralNetworkWrapper under its callers), SpecTrainer (the       *)
(*    AutoTrainer under its callers), SpecBuffer (the state buffer filled  *)
(*    beyond its capacity) and SpecTimer (the RewardManager under its      *)
(*    callers, with its setTimeout timers counted);                        *)
(*                                                                         *)
(*  - the double-buffered NeuralNetwork with temporal memory               *)
(*    (src/src/NeuralNetwork.ts, lines 1-1044); its behaviours are SpecNN  *)
(*    (the training cycles) and SpecMemory (the temporal memory).          *)
(*                                                                         *)
(* SpecCycles holds the training cycles of both, with fairness of the      *)
(* steps that settle an awaited promise.                                   *)
(*                                                                         *)
(* Time is a clock `now` counted in seconds.  The age of the 50 ms         *)
(* prediction cache is counted in milliseconds (cacheAge): it advances in  *)
(* steps, is 50 once 50 ms or more have passed, and has reached 50         *)
(* whenever the clock `now` advances.                                      *)
(***************************************************************************)
EXTENDS Integers, Sequences, FiniteSets, TLC

VARIABLES
    now,                      \* Date.now() / performance.now(), in seconds
    \* ---- RewardManager
    stateBuffer,              \* AgentState[] (each state is its identifier)
    lastLearningTime,
    intrinsicPunishmentTimer, \* NoTimer, or the deadline of the pending setTimeout
    pendingTimeouts,          \* the RewardManager's setTimeout timers neither cleared nor fired
    config,                   \* the AppConfig the RewardManager holds
    \* ---- App (React state) and CanvasManager
    isPaused,
    isSettingsOpen,
    rewardFeedback,           \* NoFeedback (null), or the marker's timestamp + 1
    isRunning,                \* CanvasManager.isRunning
    loopFeedback,             \* the rewardFeedback the running game loop's callback captured
    nextStateId,              \* the identifier of the agent's current state
    \* ---- NeuralNetworkWrapper
    wrapperIsTraining,        \* NeuralNetworkWrapper.isTraining
    fitsInFlight,             \* how many model.fit calls are being awaited
    cachedPrediction,         \* TRUE when cachedPrediction is not null
    cacheAge,                 \* performance.now() - lastPredictionTime, ms (50: that or more)
    \* ---- AutoTrainer
    selectedScenario,         \* TRUE when demoState.selectedScenario is not null
    scenario,                 \* TRUE when AutoTrainer.scenario is not null
    autoIsActive,             \* AutoTrainer.isActive
    autoTimer,                \* TRUE when AutoTrainer.timer is not null
    intervalTimers,           \* how many setInterval timers are set and not cleared
    autoInterval,             \* AutoTrainer.interval, in milliseconds
    \* ---- observation of the run (history, not program state)
    delivered,                \* state identifier -> number of LearningEvents carrying it
    lastStep                  \* what the most recent step did

appVars == <<now, stateBuffer, lastLearningTime, intrinsicPunishmentTimer, pendingTimeouts, config,
             isPaused, isSettingsOpen, rewardFeedback, isRunning, loopFeedback,
             nextStateId, wrapperIsTraining, fitsInFlight, cachedPrediction, cacheAge,
             selectedScenario, scenario, autoIsActive, autoTimer, intervalTimers, autoInterval, delivered, lastStep>>

VARIABLES
    \* ---- NeuralNetwork (double-buffered, with temporal memory)
    clock,                    \* Date.now() since construction, in units of 200 ms
    model,                    \* the ACTIVE model: a model identifier, or NoModel
    trainingModel,            \* the TRAINING model (the shadow copy), or NoModel
    disposed,                 \* the models dispose() has been called on
    nextModelId,              \* the identifier the next model created gets
    trainingData,             \* TrainingExample[] (each example is its timestamp)
    temporalMemory,           \* MemoryEntry[] (each entry is its timestamp)
    isTraining,
    trainingQueued,
    lastTrainingTime,
    lastTrainingEvent,
    lastMemoryCheck,
    lastDataRecordTime,
    dataCountCurrentSecond,
    lastSecondReset,
    cycles,                   \* the calls of trainModelNonBlocking in progress
    \* ---- observation of the run (history, not program state)
    trainedEver,              \* the examples some call of fit was given
    nnLast                    \* what the most recent NeuralNetwork step did

nnVars == <<clock, model, trainingModel, disposed, nextModelId, trainingData,
            temporalMemory, isTraining, trainingQueued, lastTrainingTime,
            lastTrainingEvent, lastMemoryCheck, lastDataRecordTime,
            dataCountCurrentSecond, lastSecondReset, cycles, trainedEver, nnLast>>

VARIABLES
    \* ---- NeuralNetworkWrapper: its model, topology and sequence buffer
    architecture,             \* NeuralNetworkWrapper.architecture
    modelArch,                \* the topology this.model was created with
    sequenceBuffer,           \* number[][]: each entry is what put it there
    \* ---- observation of the run (history, not program state)
    wLast                     \* what the most recent step did to the wrapper

wModelVars == <<architecture, modelArch, sequenceBuffer>>

wVars == <<wModelVars, wLast>>

vars == <<appVars, nnVars, wVars>>

-----------------------------------------------------------------------------
(* Bounds of the model *)

MaxTime == 2        \* the clock stops advancing here
MaxStates == 3      \* agent states created by renderFrame
MaxOverflow == 3    \* states added beyond the state buffer's capacity
MaxCacheSteps == 2  \* steps of performance.now() within the 50 ms of the cache

(* Program constants *)

maxBufferSize == 80
NoTimer == 0
NoFeedback == 0

\* intrinsicTimeframe, seconds: the default and the two lowest values of the
\* settings panel's slider (1 to 30)
TimeframeChoices == {1, 2, 10}

Range(s) == {s[i] : i \in 1..Len(s)}

\* reward amounts are fixed-point numbers, in thousandths
Thousandth == 1000

DEFAULT_CONFIG == [intrinsicPunishment |-> FALSE, intrinsicTimeframe |-> 10,
                   gradientReward |-> FALSE, manualPunishmentEnabled |-> FALSE,
                   gradientPunishment |-> FALSE,
                   rewardMin |-> 0, rewardMax |-> 1 * Thousandth,
                   gradientPunishmentMin |-> 0,
                   gradientPunishmentMax |-> 1 * Thousandth]

UIPaused == isSettingsOpen \/ isPaused

\* The record a step leaves in lastStep.  op names the handler; paused is the
\* UI's pause state when it ran; event, states and dropped describe the
\* LearningEvent it sent, if any (dropped: trainOnExperience returned at once),
\* rewards the rewards handleLearningEvent passed on with the states; rmTimer
\* is the intrinsic timer as the RewardManager method a feedback handler
\* called left it, before the App rendered again;
\* training, moved, output and appended describe a renderFrame; evaluated,
\* forwarded and threw an AutoTrainer tick (threw: autoTrainingLogic threw).
Quiet(op) ==
    [op |-> op, paused |-> UIPaused, event |-> "none", states |-> <<>>,
     rewards |-> <<>>, rmTimer |-> NoTimer, dropped |-> FALSE, training |-> wrapperIsTraining, moved |-> FALSE,
     output |-> "none", appended |-> 0, evaluated |-> FALSE, forwarded |-> "none",
     threw |-> FALSE]

-----------------------------------------------------------------------------
(* RewardManager *)

\* resetIntrinsicPunishmentTimer: clear the timer, then arm it when enabled
ResetIntrinsicPunishmentTimer_FixedDelay(cfg) ==
    IF cfg.intrinsicPunishment THEN now + 1 ELSE NoTimer
ResetIntrinsicPunishmentTimer(cfg) ==
    IF cfg.intrinsicPunishment THEN now + cfg.intrinsicTimeframe ELSE NoTimer

\* setupIntrinsicPunishment: clear the timer, then reset it when enabled
SetupIntrinsicPunishment_NoCancel(cfg) ==
    IF cfg.intrinsicPunishment
    THEN ResetIntrinsicPunishmentTimer(cfg)
    ELSE intrinsicPunishmentTimer
SetupIntrinsicPunishment(cfg) ==
    IF cfg.intrinsicPunishment THEN ResetIntrinsicPunishmentTimer(cfg) ELSE NoTimer

\* pause(): clearIntrinsicPunishmentTimer
PauseTimer(timer) == NoTimer

\* The setTimeout timers the RewardManager has pending, beside the handle it
\* keeps of the last one.  clearIntrinsicPunishmentTimer: clearTimeout on the
\* handle's timer, when the handle is not null
ClearedTimeouts(timer, pending) ==
    IF timer # NoTimer THEN pending - 1 ELSE pending

\* resetIntrinsicPunishmentTimer: clear, then setTimeout when enabled
ResetTimeouts_NoClear(cfg, timer, pending) ==
    IF cfg.intrinsicPunishment THEN pending + 1 ELSE pending
ResetTimeouts(cfg, timer, pending) ==
    IF cfg.intrinsicPunishment
    THEN ClearedTimeouts(timer, pending) + 1
    ELSE ClearedTimeouts(timer, pending)

\* setupIntrinsicPunishment, and reset(): clear, then reset when enabled
SetupTimeouts(cfg, timer, pending) ==
    IF cfg.intrinsicPunishment
    THEN ResetTimeouts(cfg, NoTimer, ClearedTimeouts(timer, pending))
    ELSE ClearedTimeouts(timer, pending)

\* the timer's callback: the timer that fired is pending no more and
\* clearTimeout on its handle does nothing
ExpiryTimeouts(cfg, pending) == ResetTimeouts(cfg, NoTimer, pending - 1)

\* resume(): re-arm when the feature is enabled, else leave the timer as it is
ResumeTimer(cfg, timer) ==
    IF cfg.intrinsicPunishment THEN ResetIntrinsicPunishmentTimer(cfg) ELSE timer

\* clearStateBuffer
ClearStateBuffer_Keep == stateBuffer
ClearStateBuffer == <<>>

\* addState: push, then drop the oldest state beyond maxBufferSize
AddState_NoEviction(buf, s) == Append(buf, s)
AddState(buf, s) ==
    LET pushed == Append(buf, s)
    IN  IF Len(pushed) > maxBufferSize THEN Tail(pushed) ELSE pushed

\* the states a manual event carries: the whole buffer in gradient mode,
\* else the most recent state alone
ManualStates_WholeBuffer(cfg, buf) == buf
ManualStates(cfg, buf) ==
    IF cfg.gradientReward THEN buf ELSE <<buf[Len(buf)]>>

\* utils.lerp, on thousandths
Lerp(a, b, t) == a + ((b - a) * t) \div Thousandth

\* Math.pow(i / d, 0.3) in thousandths, rounded, for the fractions with a
\* denominator up to 5
ExponentialT(i, d) ==
    LET sixtieths == (i * 60) \div d
    IN  CASE i = 0 -> 0
          [] i = d -> Thousandth
          [] sixtieths = 12 -> 617
          [] sixtieths = 15 -> 660
          [] sixtieths = 20 -> 719
          [] sixtieths = 24 -> 760
          [] sixtieths = 30 -> 812
          [] sixtieths = 36 -> 858
          [] sixtieths = 40 -> 885
          [] sixtieths = 45 -> 917
          [] sixtieths = 48 -> 935

\* utils.generateGradientRewards
GenerateGradientRewards(stateCount, minValue, maxValue) ==
    IF stateCount = 0 THEN <<>>
    ELSE IF stateCount = 1 THEN <<maxValue>>
    ELSE [i \in 1..stateCount |->
             Lerp(minValue, maxValue, ExponentialT(i - 1, stateCount - 1))]

\* the LearningEvent applyManualReward builds; rewards is <<>> where the
\* event has no rewards array
ManualRewardEvent(cfg, buf) ==
    IF cfg.gradientReward
    THEN [states |-> buf, reward |-> cfg.rewardMax,
          rewards |-> GenerateGradientRewards(Len(buf), cfg.rewardMin, cfg.rewardMax),
          isGradient |-> TRUE]
    ELSE [states |-> ManualStates(cfg, buf), reward |-> cfg.rewardMax,
          rewards |-> <<>>, isGradient |-> FALSE]

\* the LearningEvent applyManualPunishment builds
ManualPunishmentEvent(cfg, buf) ==
    IF cfg.gradientReward
    THEN [states |-> buf, reward |-> 0 - cfg.gradientPunishmentMax,
          rewards |-> GenerateGradientRewards(Len(buf), 0 - cfg.gradientPunishmentMax,
                                              0 - cfg.gradientPunishmentMin),
          isGradient |-> TRUE]
    ELSE [states |-> ManualStates(cfg, buf), reward |-> 0 - cfg.gradientPunishmentMax,
          rewards |-> <<>>, isGradient |-> FALSE]

\* the LearningEvent applyIntrinsicPunishment builds: every buffered state,
\* each with a neutral reward
IntrinsicEvent_LastStateOnly(buf) ==
    [states |-> <<buf[Len(buf)]>>, reward |-> 0, rewards |-> <<0>>,
     isGradient |-> TRUE]
IntrinsicEvent(buf) ==
    [states |-> buf, reward |-> 0, rewards |-> [i \in 1..Len(buf) |-> 0],
     isGradient |-> TRUE]

\* applyIntrinsicPunishment re-arms the timer on both of its paths
RearmAfterExpiry_Never(buf, cfg) == NoTimer
RearmAfterExpiry_OnlyAfterEvent(buf, cfg) ==
    IF Len(buf) = 0 THEN NoTimer ELSE ResetIntrinsicPunishmentTimer(cfg)
RearmAfterExpiry(buf, cfg) == ResetIntrinsicPunishmentTimer(cfg)

-----------------------------------------------------------------------------
(* NeuralNetworkWrapper *)

\* trainOnExperience's guard: a call returns at once while a training is in
\* progress or when it is given no states (the rewards always match in length)
TrainOnExperienceStarts_NoGuard(states) == Len(states) # 0
TrainOnExperienceStarts(states) == ~wrapperIsTraining /\ Len(states) # 0

predictionCacheTimeout == 50

\* the step performance.now() advances by in the model, milliseconds
cacheTimeStep == predictionCacheTimeout \div MaxCacheSteps

\* performance.now() - lastPredictionTime < predictionCacheTimeout
cacheFresh == cacheAge < predictionCacheTimeout

\* getCachedPrediction: the cached output while it is younger than 50 ms
GetCachedPrediction_Inclusive == cachedPrediction /\ cacheAge <= predictionCacheTimeout
GetCachedPrediction == cachedPrediction /\ cacheFresh

Architectures == {"simple-mlp", "residual-mlp", "recurrent-lstm"}

maxSequenceLength == 10

\* the tensor a topology takes: tensor3d [batch, time, features] for the
\* recurrent one, tensor2d [batch, features] for the two MLPs
InputShape(arch) == IF arch = "recurrent-lstm" THEN "sequence" ELSE "vector"

\* The record a step leaves in wLast.  op names the predict, resetModel or
\* switchArchitecture the step called ("none" when it called none); fault tells that TensorFlow was made to fail
\* during it, threw that the method threw or its promise was rejected;
\* topology is the topology of the model a predict evaluated, or the one a
\* switchArchitecture was asked for; rebuilt tells that the method disposed
\* this.model and created a new one; returned tells that a getCachedPrediction
\* returned the cached output and not null.
WQuiet(op) ==
    [op |-> op, fault |-> FALSE, threw |-> FALSE, topology |-> "none",
     rebuilt |-> FALSE, returned |-> FALSE]

\* a step that calls neither predict nor resetModel nor switchArchitecture
WrapperIdle ==
    /\ wLast' = WQuiet("none")
    /\ UNCHANGED wModelVars

\* addToSequenceBuffer
AddToSequenceBuffer(buf, entry) ==
    LET pushed == Append(buf, entry)
    IN  IF Len(pushed) > maxSequenceLength THEN Tail(pushed) ELSE pushed

\* getSequenceInput: the zero rows are unshifted into this.sequenceBuffer
\* itself, and the returned slice is the buffer it leaves
GetSequenceInput(buf) ==
    IF Len(buf) < maxSequenceLength
    THEN [i \in 1..(maxSequenceLength - Len(buf)) |-> "zero"] \o buf
    ELSE buf

\* addToSequenceBuffer then getSequenceInput, once per input
RECURSIVE FeedSequence(_, _)
FeedSequence(buf, entries) ==
    IF entries = <<>> THEN buf
    ELSE FeedSequence(GetSequenceInput(AddToSequenceBuffer(buf, Head(entries))),
                      Tail(entries))

\* the sequence buffer after the inputs of a predict or of a training went
\* through the branch on this.architecture
SequenceAfter(entries) ==
    IF architecture = "recurrent-lstm"
    THEN FeedSequence(sequenceBuffer, entries)
    ELSE sequenceBuffer

\* this.model.predict(inputTensor) throws when TensorFlow fails, or when the
\* tensor built for this.architecture is not of the model's input shape
ModelPredictThrows(fault) ==
    fault \/ InputShape(architecture) # InputShape(modelArch)

\* trainOnExperience up to its await of model.fit.  The wrapper keeps no
\* queue: a call that returns early leaves no trace of its states.  The
\* predictions it takes before the fit go through the sequence buffer; one
\* that throws is caught, and the finally block clears isTraining.
TrainOnExperience(states) ==
    IF TrainOnExperienceStarts(states)
    THEN IF ModelPredictThrows(FALSE)
         THEN /\ wrapperIsTraining' = FALSE
              /\ UNCHANGED fitsInFlight
              /\ sequenceBuffer' = SequenceAfter(<<"state">>)
              /\ wLast' = WQuiet("none")
              /\ UNCHANGED <<architecture, modelArch>>
         ELSE /\ wrapperIsTraining' = TRUE
              /\ fitsInFlight' = fitsInFlight + 1
              /\ sequenceBuffer' = SequenceAfter([i \in 1..Len(states) |-> "state"])
              /\ wLast' = WQuiet("none")
              /\ UNCHANGED <<architecture, modelArch>>
    ELSE /\ UNCHANGED <<wrapperIsTraining, fitsInFlight>>
         /\ wLast' = WQuiet("none")
         /\ UNCHANGED wModelVars

\* predict: the input goes through the sequence buffer (recurrent topology),
\* the model is evaluated and the result cached.  There is no try/catch: when
\* the evaluation throws, the promise predict returns is rejected and the
\* cache is left as it was.
WrapperPredict(fault) ==
    /\ sequenceBuffer' = SequenceAfter(<<"input">>)
    /\ IF ModelPredictThrows(fault)
       THEN /\ UNCHANGED <<cachedPrediction, cacheAge>>
            /\ wLast' = [WQuiet("predict") EXCEPT !.fault = fault, !.threw = TRUE]
       ELSE /\ cachedPrediction' = TRUE
            /\ cacheAge' = 0
            /\ wLast' = [WQuiet("predict") EXCEPT !.topology = modelArch]
    /\ UNCHANGED <<architecture, modelArch>>

\* resetModel: this.model is disposed and a model of this.architecture
\* created; the step counter and the sequence buffer are reset.  isTraining,
\* cachedPrediction and lastPredictionTime are not touched, and a fit being
\* awaited is left to go on.
ResetModel_KeepsSequence(arch) ==
    /\ modelArch' = arch
    /\ sequenceBuffer' = sequenceBuffer
ResetModel(arch) ==
    /\ modelArch' = arch
    /\ sequenceBuffer' = <<>>

\* handleLearningEvent's rewards: the event's array when it is a gradient
\* event, else its single reward once per state
EventRewards(event) ==
    IF event.isGradient
    THEN event.rewards
    ELSE [i \in 1..Len(event.states) |-> event.reward]

\* App.handleLearningEvent: the event's states and rewards go to trainOnExperience
Dispatch(kind, event, step) ==
    /\ delivered' = [s \in DOMAIN delivered |->
                        IF s \in Range(event.states) THEN delivered[s] + 1
                        ELSE delivered[s]]
    /\ lastStep' = [step EXCEPT !.event = kind, !.states = event.states,
                                !.rewards = EventRewards(event),
                                !.dropped = ~TrainOnExperienceStarts(event.states)]
    /\ TrainOnExperience(event.states)

NoDispatch(step) ==
    /\ lastStep' = step
    /\ UNCHANGED <<delivered, wrapperIsTraining, fitsInFlight>>
    /\ WrapperIdle

\* model.fit resolves or rejects: either way the finally block clears isTraining
FitDone ==
    /\ fitsInFlight > 0
    /\ fitsInFlight' = fitsInFlight - 1
    /\ wrapperIsTraining' = FALSE
    /\ WrapperIdle
    /\ lastStep' = Quiet("fitDone")
    /\ UNCHANGED <<now, stateBuffer, lastLearningTime, intrinsicPunishmentTimer, pendingTimeouts, config,
                   isPaused, isSettingsOpen, rewardFeedback, isRunning, loopFeedback, nextStateId,
                   cachedPrediction, cacheAge, selectedScenario, scenario,
                   autoIsActive, autoTimer, intervalTimers, autoInterval, delivered>>
    /\ UNCHANGED nnVars

-----------------------------------------------------------------------------
(* RewardManager operations as the App's feedback handlers call them.  Each  *)
(* handler goes on to call setRewardFeedback with a new marker, so the App   *)
(* renders again and its pause/resume effect runs on the timer the           *)
(* RewardManager call left.                                                  *)

\* the pause/resume effect of App: it runs when isSettingsOpen, isPaused or
\* renderFrame changes (renderFrame changes with rewardFeedback)
PauseEffectTimer(paused, cfg, timer) ==
    IF paused THEN PauseTimer(timer) ELSE ResumeTimer(cfg, timer)

\* what follows a setRewardFeedback(...) of a new value: renderFrame is a new
\* function, so the pause/resume effect runs again
AfterFeedbackRender(t) == PauseEffectTimer(UIPaused, config, t)

\* the timers pending after the pause/resume effect ran
PauseEffectTimeouts(paused, cfg, timer, pending) ==
    IF paused
    THEN ClearedTimeouts(timer, pending)
    ELSE IF cfg.intrinsicPunishment
         THEN ResetTimeouts(cfg, timer, pending)
         ELSE pending

AfterFeedbackRenderTimeouts(t, pending) ==
    PauseEffectTimeouts(UIPaused, config, t, pending)

\* applyManualReward / applyManualPunishment return at once on an empty buffer
ManualFeedbackRejected(buf) == Len(buf) = 0

\* applyManualPunishment returns at once when manual punishment is disabled
PunishmentRejected_IgnoresConfig(cfg) == FALSE
PunishmentRejected(cfg) == ~cfg.manualPunishmentEnabled

\* a call of applyManualReward / applyManualPunishment that returned at once:
\* the RewardManager is as it was
ManualFeedbackNoOp_RestartsTimer(step) ==
    /\ intrinsicPunishmentTimer' =
           AfterFeedbackRender(ResetIntrinsicPunishmentTimer(config))
    /\ pendingTimeouts' =
           AfterFeedbackRenderTimeouts(
               ResetIntrinsicPunishmentTimer(config),
               ResetTimeouts(config, intrinsicPunishmentTimer, pendingTimeouts))
    /\ UNCHANGED <<stateBuffer, lastLearningTime>>
    /\ NoDispatch([step EXCEPT !.rmTimer = ResetIntrinsicPunishmentTimer(config)])
ManualFeedbackNoOp(step) ==
    /\ intrinsicPunishmentTimer' = AfterFeedbackRender(intrinsicPunishmentTimer)
    /\ pendingTimeouts' =
           AfterFeedbackRenderTimeouts(intrinsicPunishmentTimer, pendingTimeouts)
    /\ UNCHANGED <<stateBuffer, lastLearningTime>>
    /\ NoDispatch([step EXCEPT !.rmTimer = intrinsicPunishmentTimer])

\* applyManualReward / applyManualPunishment past the configuration guard
ManualFeedback(kind, step) ==
    IF ManualFeedbackRejected(stateBuffer)
    THEN ManualFeedbackNoOp(step)
    ELSE /\ intrinsicPunishmentTimer' =
                AfterFeedbackRender(ResetIntrinsicPunishmentTimer(config))
         /\ pendingTimeouts' =
                AfterFeedbackRenderTimeouts(
                    ResetIntrinsicPunishmentTimer(config),
                    ResetTimeouts(config, intrinsicPunishmentTimer, pendingTimeouts))
         /\ Dispatch(kind,
                     IF kind = "reward"
                     THEN ManualRewardEvent(config, stateBuffer)
                     ELSE ManualPunishmentEvent(config, stateBuffer),
                     [step EXCEPT !.rmTimer = ResetIntrinsicPunishmentTimer(config)])
         /\ stateBuffer' = ClearStateBuffer
         /\ lastLearningTime' = now

\* RewardManager.applyManualPunishment with its configuration guard
ApplyManualPunishment(step) ==
    IF PunishmentRejected(config)
    THEN ManualFeedbackNoOp(step)
    ELSE ManualFeedback("punishment", step)

-----------------------------------------------------------------------------
(* App: the control loop and the handlers of the controls *)

\* renderFrame moves the agent (and asks for a new prediction) only when no
\* training is in progress
MovesAgent_Always(training) == TRUE
MovesAgent(training) == ~training

\* CanvasManager.start and stop, as the pause/resume effect calls them with the
\* renderFrame of the render whose rewardFeedback is fb.  start does nothing
\* while the loop is running: the loop keeps the callback it was started with
CanvasEffect_PauseKeepsLoop(paused, fb) ==
    IF paused
    THEN UNCHANGED <<isRunning, loopFeedback>>
    ELSE IF isRunning
         THEN UNCHANGED <<isRunning, loopFeedback>>
         ELSE isRunning' = TRUE /\ loopFeedback' = fb
CanvasEffect(paused, fb) ==
    IF paused
    THEN isRunning' = FALSE /\ loopFeedback' = NoFeedback
    ELSE IF isRunning
         THEN UNCHANGED <<isRunning, loopFeedback>>
         ELSE isRunning' = TRUE /\ loopFeedback' = fb

\* the feedback marker is shown for one second; after it, a callback that
\* captured a marker calls setRewardFeedback(null)
FeedbackExpired ==
    loopFeedback # NoFeedback /\ ~(now - (loopFeedback - 1) < 1)

\* renderFrame, called by CanvasManager's game loop, moving the agent or not.
\* Its own guard reads the isPaused and isSettingsOpen of the render that
\* made the callback the loop was started with, and CanvasEffect starts the
\* loop only from renders in which both are false: a frame runs whenever the
\* loop is running.  What keeps frames out of a pause is the pause effect
\* stopping the loop.
RenderFrameBody(moved) ==
    /\ isRunning
    /\ nextStateId <= MaxStates
    /\ LET buf == AddState(stateBuffer, nextStateId)
       IN  /\ IF moved
              THEN WrapperPredict(FALSE)
              ELSE UNCHANGED <<cachedPrediction, cacheAge>> /\ WrapperIdle
           /\ stateBuffer' = buf
           /\ lastStep' = [Quiet("renderFrame") EXCEPT
                             !.moved = moved,
                             !.output = IF GetCachedPrediction THEN "cached" ELSE "zero",
                             !.appended = Cardinality({i \in 1..Len(buf) : buf[i] = nextStateId})]
    /\ nextStateId' = nextStateId + 1
    /\ IF FeedbackExpired /\ rewardFeedback # NoFeedback
       THEN /\ rewardFeedback' = NoFeedback
            /\ intrinsicPunishmentTimer' =
                   PauseEffectTimer(FALSE, config, intrinsicPunishmentTimer)
            /\ pendingTimeouts' =
                   PauseEffectTimeouts(FALSE, config, intrinsicPunishmentTimer,
                                       pendingTimeouts)
       ELSE UNCHANGED <<rewardFeedback, intrinsicPunishmentTimer, pendingTimeouts>>
    /\ UNCHANGED <<now, lastLearningTime, config, isPaused, isSettingsOpen, isRunning,
                   loopFeedback, wrapperIsTraining, fitsInFlight, selectedScenario,
                   scenario, autoIsActive, autoTimer, intervalTimers, autoInterval, delivered>>
    /\ UNCHANGED nnVars

\* App.renderFrame: the agent is moved, and a new prediction requested, only
\* when no training is in progress
RenderFrame == RenderFrameBody(MovesAgent(wrapperIsTraining))

\* renderFrame of the App with the demo controls: the agent is moved on every
\* frame
RenderFrameDemo == RenderFrameBody(TRUE)

\* App.handleReward (the Reward button)
HandleReward ==
    /\ ~isSettingsOpen
    /\ ~autoIsActive
    /\ ManualFeedback("reward", Quiet("handleReward"))
    /\ rewardFeedback' = now + 1
    /\ CanvasEffect(UIPaused, now + 1)
    /\ UNCHANGED <<now, config, isPaused, isSettingsOpen, nextStateId, cachedPrediction,
                   cacheAge, selectedScenario, scenario, autoIsActive, autoTimer, intervalTimers, autoInterval>>
    /\ UNCHANGED nnVars

\* App.handlePunishment (the Punish button)
HandlePunishment ==
    /\ ~isSettingsOpen
    /\ ~autoIsActive
    /\ config.manualPunishmentEnabled
    /\ ApplyManualPunishment(Quiet("handlePunishment"))
    /\ rewardFeedback' = now + 1
    /\ CanvasEffect(UIPaused, now + 1)
    /\ UNCHANGED <<now, config, isPaused, isSettingsOpen, nextStateId, cachedPrediction,
                   cacheAge, selectedScenario, scenario, autoIsActive, autoTimer, intervalTimers, autoInterval>>
    /\ UNCHANGED nnVars

\* App.handleReset (the Reset button): RewardManager.reset, resetModel and
\* setRewardFeedback(null), which renders again only when a marker was set
HandleReset ==
    /\ ~isSettingsOpen
    /\ stateBuffer' = ClearStateBuffer
    /\ lastLearningTime' = now
    /\ intrinsicPunishmentTimer' =
           IF rewardFeedback # NoFeedback
           THEN AfterFeedbackRender(ResetIntrinsicPunishmentTimer(config))
           ELSE ResetIntrinsicPunishmentTimer(config)
    /\ pendingTimeouts' =
           LET afterReset == SetupTimeouts(config, intrinsicPunishmentTimer,
                                           pendingTimeouts)
           IN  IF rewardFeedback # NoFeedback
               THEN AfterFeedbackRenderTimeouts(ResetIntrinsicPunishmentTimer(config),
                                                afterReset)
               ELSE afterReset
    /\ rewardFeedback' = NoFeedback
    /\ IF rewardFeedback # NoFeedback
       THEN CanvasEffect(UIPaused, NoFeedback)
       ELSE UNCHANGED <<isRunning, loopFeedback>>
    /\ ResetModel(architecture)
    /\ wLast' = [WQuiet("resetModel") EXCEPT !.rebuilt = TRUE]
    /\ lastStep' = Quiet("handleReset")
    /\ UNCHANGED <<architecture, delivered, wrapperIsTraining, fitsInFlight>>
    /\ UNCHANGED <<now, config, isPaused, isSettingsOpen, nextStateId, cachedPrediction,
                   cacheAge, selectedScenario, scenario, autoIsActive, autoTimer, intervalTimers, autoInterval>>
    /\ UNCHANGED nnVars

\* the pause/resume effect after isPaused or isSettingsOpen changed
PauseEffect(paused) ==
    /\ intrinsicPunishmentTimer' = PauseEffectTimer(paused, config, intrinsicPunishmentTimer)
    /\ pendingTimeouts' =
           PauseEffectTimeouts(paused, config, intrinsicPunishmentTimer, pendingTimeouts)
    /\ CanvasEffect(paused, rewardFeedback)

\* App.togglePause (the Pause button)
TogglePause ==
    /\ ~isSettingsOpen
    /\ isPaused' = ~isPaused
    /\ PauseEffect(isSettingsOpen \/ ~isPaused)
    /\ NoDispatch(Quiet("togglePause"))
    /\ UNCHANGED <<now, stateBuffer, lastLearningTime, config, isSettingsOpen,
                   rewardFeedback, nextStateId, cachedPrediction, cacheAge,
                   selectedScenario, scenario, autoIsActive, autoTimer, intervalTimers, autoInterval>>
    /\ UNCHANGED nnVars

\* App.toggleSettings (the Settings button) and the panel's onClose
ToggleSettings ==
    /\ isSettingsOpen' = ~isSettingsOpen
    /\ PauseEffect(~isSettingsOpen \/ isPaused)
    /\ NoDispatch(Quiet("toggleSettings"))
    /\ UNCHANGED <<now, stateBuffer, lastLearningTime, config, isPaused,
                   rewardFeedback, nextStateId, cachedPrediction, cacheAge,
                   selectedScenario, scenario, autoIsActive, autoTimer, intervalTimers, autoInterval>>
    /\ UNCHANGED nnVars

\* the configurations the panel's controls reach here: the reward amounts
\* and the punishment's gradient toggle keep their defaults
Configs == [intrinsicPunishment : BOOLEAN, intrinsicTimeframe : TimeframeChoices,
            gradientReward : BOOLEAN, manualPunishmentEnabled : BOOLEAN,
            gradientPunishment : {DEFAULT_CONFIG.gradientPunishment},
            rewardMin : {DEFAULT_CONFIG.rewardMin},
            rewardMax : {DEFAULT_CONFIG.rewardMax},
            gradientPunishmentMin : {DEFAULT_CONFIG.gradientPunishmentMin},
            gradientPunishmentMax : {DEFAULT_CONFIG.gradientPunishmentMax}]

\* a control of the settings panel changes one option (or one this model does
\* not hold, such as the canvas size); the config effect calls updateConfig
OneOptionChanged(old, new) ==
    Cardinality({k \in DOMAIN old : old[k] # new[k]}) <= 1

UpdateConfig ==
    /\ isSettingsOpen
    /\ \E cfg \in Configs :
          /\ OneOptionChanged(config, cfg)
          /\ config' = cfg
          /\ intrinsicPunishmentTimer' = SetupIntrinsicPunishment(cfg)
          /\ pendingTimeouts' =
                 SetupTimeouts(cfg, intrinsicPunishmentTimer, pendingTimeouts)
    /\ NoDispatch(Quiet("updateConfig"))
    /\ UNCHANGED <<now, stateBuffer, lastLearningTime, isPaused, isSettingsOpen,
                   rewardFeedback, isRunning, loopFeedback, nextStateId, cachedPrediction, cacheAge,
                   selectedScenario, scenario, autoIsActive, autoTimer, intervalTimers, autoInterval>>
    /\ UNCHANGED nnVars

\* the intrinsic timer's callback: RewardManager.applyIntrinsicPunishment
TimerExpires ==
    /\ intrinsicPunishmentTimer # NoTimer
    /\ now >= intrinsicPunishmentTimer
    /\ IF Len(stateBuffer) = 0
       THEN /\ UNCHANGED <<stateBuffer, lastLearningTime>>
            /\ NoDispatch(Quiet("timer"))
       ELSE /\ Dispatch("intrinsic", IntrinsicEvent(stateBuffer), Quiet("timer"))
            /\ stateBuffer' = ClearStateBuffer
            /\ lastLearningTime' = now
    /\ intrinsicPunishmentTimer' = RearmAfterExpiry(stateBuffer, config)
    /\ pendingTimeouts' = ExpiryTimeouts(config, pendingTimeouts)
    /\ UNCHANGED <<now, config, isPaused, isSettingsOpen, rewardFeedback, isRunning, loopFeedback,
                   nextStateId, cachedPrediction, cacheAge, selectedScenario, scenario,
                   autoIsActive, autoTimer, intervalTimers, autoInterval>>
    /\ UNCHANGED nnVars

\* one second passes
Tick ==
    /\ now < MaxTime
    /\ now' = now + 1
    /\ cacheAge' = predictionCacheTimeout
    /\ NoDispatch(Quiet("tick"))
    /\ UNCHANGED <<stateBuffer, lastLearningTime, intrinsicPunishmentTimer, pendingTimeouts, config,
                   isPaused, isSettingsOpen, rewardFeedback, isRunning, loopFeedback, nextStateId,
                   cachedPrediction, selectedScenario, scenario, autoIsActive,
                   autoTimer, intervalTimers, autoInterval>>
    /\ UNCHANGED nnVars

\* 50 ms pass since the last prediction
CacheExpires ==
    /\ cacheFresh
    /\ cacheAge' = predictionCacheTimeout
    /\ NoDispatch(Quiet("cacheExpires"))
    /\ UNCHANGED <<now, stateBuffer, lastLearningTime, intrinsicPunishmentTimer, pendingTimeouts, config,
                   isPaused, isSettingsOpen, rewardFeedback, isRunning, loopFeedback, nextStateId,
                   cachedPrediction, selectedScenario, scenario, autoIsActive,
                   autoTimer, intervalTimers, autoInterval>>
    /\ UNCHANGED nnVars

-----------------------------------------------------------------------------
(* AutoTrainer and the demo controls of the settings panel *)

\* AutoTrainer.stop, given its timer and the interval timers alive: the
\* trainer's state [isActive, timer, timers] it leaves
AutoStopped(timer, timers) ==
    [isActive |-> FALSE, timer |-> FALSE,
     timers |-> IF timer THEN timers - 1 ELSE timers]

\* AutoTrainer.start, given the scenario it holds when called
AutoStarted_NoGuard(sc, active, timer, timers) ==
    IF ~sc
    THEN [isActive |-> active, timer |-> timer, timers |-> timers]
    ELSE [isActive |-> TRUE, timer |-> TRUE, timers |-> timers + 1]
AutoStarted(sc, active, timer, timers) ==
    IF ~sc \/ active
    THEN [isActive |-> active, timer |-> timer, timers |-> timers]
    ELSE [isActive |-> TRUE, timer |-> TRUE, timers |-> timers + 1]

\* the trainer's isActive, timer and the browser's interval timers become t
TrainerBecomes(t) ==
    /\ autoIsActive' = t.isActive
    /\ autoTimer' = t.timer
    /\ intervalTimers' = t.timers

AutoStop == TrainerBecomes(AutoStopped(autoTimer, intervalTimers))

AutoStart(sc) == TrainerBecomes(AutoStarted(sc, autoIsActive, autoTimer, intervalTimers))

\* App.handleDemoScenarioSelect: stop the trainer; a chosen scenario's config
\* is merged into the App's config, and the config effect calls updateConfig
HandleDemoScenarioSelect ==
    /\ isSettingsOpen
    /\ AutoStop
    /\ \E sel \in BOOLEAN :
          /\ selectedScenario' = sel
          /\ IF sel
             THEN \E cfg \in Configs :
                     /\ config' = cfg
                     /\ intrinsicPunishmentTimer' = SetupIntrinsicPunishment(cfg)
                     /\ pendingTimeouts' =
                            SetupTimeouts(cfg, intrinsicPunishmentTimer, pendingTimeouts)
             ELSE UNCHANGED <<config, intrinsicPunishmentTimer, pendingTimeouts>>
    /\ NoDispatch(Quiet("handleDemoScenarioSelect"))
    /\ UNCHANGED autoInterval
    /\ UNCHANGED <<now, stateBuffer, lastLearningTime, isPaused, isSettingsOpen,
                   rewardFeedback, isRunning, loopFeedback, nextStateId, cachedPrediction, cacheAge,
                   scenario>>
    /\ UNCHANGED nnVars

\* App.handleDemoStart: setScenario(scenario), then start()
HandleDemoStart ==
    /\ isSettingsOpen
    /\ selectedScenario
    /\ scenario' = TRUE
    /\ AutoStart(TRUE)
    /\ NoDispatch(Quiet("handleDemoStart"))
    /\ UNCHANGED autoInterval
    /\ UNCHANGED <<now, stateBuffer, lastLearningTime, intrinsicPunishmentTimer, pendingTimeouts, config,
                   isPaused, isSettingsOpen, rewardFeedback, isRunning, loopFeedback, nextStateId,
                   cachedPrediction, cacheAge, selectedScenario>>
    /\ UNCHANGED nnVars

\* App.handleDemoStop
HandleDemoStop ==
    /\ isSettingsOpen
    /\ AutoStop
    /\ NoDispatch(Quiet("handleDemoStop"))
    /\ UNCHANGED autoInterval
    /\ UNCHANGED <<now, stateBuffer, lastLearningTime, intrinsicPunishmentTimer, pendingTimeouts, config,
                   isPaused, isSettingsOpen, rewardFeedback, isRunning, loopFeedback, nextStateId,
                   cachedPrediction, cacheAge, selectedScenario, scenario>>
    /\ UNCHANGED nnVars

\* the intervals setInterval is called with: the default and one other
Intervals == {200, 500}

\* what a call of one AutoTrainer method leaves of the rest of the App
TrainerCall(op) ==
    /\ NoDispatch(Quiet(op))
    /\ UNCHANGED <<now, stateBuffer, lastLearningTime, intrinsicPunishmentTimer, pendingTimeouts, config,
                   isPaused, isSettingsOpen, rewardFeedback, isRunning, loopFeedback, nextStateId,
                   cachedPrediction, cacheAge, selectedScenario>>
    /\ UNCHANGED nnVars

\* AutoTrainer.start called by the trainer's owner
CallStart ==
    /\ AutoStart(scenario)
    /\ UNCHANGED <<scenario, autoInterval>>
    /\ TrainerCall("start")

\* AutoTrainer.stop called by the trainer's owner
CallStop ==
    /\ AutoStop
    /\ UNCHANGED <<scenario, autoInterval>>
    /\ TrainerCall("stop")

\* AutoTrainer.setScenario: a null scenario stops an active trainer
SetScenario(sc) ==
    /\ scenario' = sc
    /\ IF autoIsActive /\ ~sc
       THEN AutoStop
       ELSE UNCHANGED <<autoIsActive, autoTimer, intervalTimers>>
    /\ UNCHANGED autoInterval
    /\ TrainerCall("setScenario")

CallSetScenario == \E sc \in BOOLEAN : SetScenario(sc)

\* AutoTrainer.setInterval: an active trainer is stopped and started again
SetInterval(interval) ==
    /\ autoInterval' = interval
    /\ IF autoIsActive
       THEN LET stopped == AutoStopped(autoTimer, intervalTimers)
            IN  TrainerBecomes(AutoStarted(scenario, stopped.isActive,
                                           stopped.timer, stopped.timers))
       ELSE UNCHANGED <<autoIsActive, autoTimer, intervalTimers>>
    /\ UNCHANGED scenario
    /\ TrainerCall("setInterval")

CallSetInterval == \E interval \in Intervals : SetInterval(interval)

\* AutoTrainer.dispose
CallDispose ==
    /\ AutoStop
    /\ scenario' = FALSE
    /\ UNCHANGED autoInterval
    /\ TrainerCall("dispose")

\* what one evaluation of the scenario's autoTrainingLogic gives
AutoOutcomes == {"none", "reward", "punishment", "throw"}

\* evaluateAgent's guard.  AutoTrainer has no pause of its own and App's
\* pause/resume effect does not reach it: a tick is evaluated whenever the
\* interval timer fires on an active trainer
AutoTickEvaluates == scenario /\ autoIsActive

\* evaluateAgent's try/catch, given what the evaluation gave and the trainer's
\* [isActive, timer, timers]: the catch block logs the error and touches
\* nothing, so the trainer is left as it was
CaughtInTick_StopsTrainer(outcome, active, timer, timers) ==
    IF outcome = "throw"
    THEN AutoStopped(timer, timers)
    ELSE [isActive |-> active, timer |-> timer, timers |-> timers]
CaughtInTick(outcome, active, timer, timers) ==
    [isActive |-> active, timer |-> timer, timers |-> timers]

\* the interval timer's callback: AutoTrainer.evaluateAgent, then
\* App.handleAutoTrainingEvent for the event the scenario returned
AutoTick ==
    /\ intervalTimers > 0
    /\ IF ~AutoTickEvaluates
       THEN /\ NoDispatch(Quiet("autoTick"))
            /\ UNCHANGED <<stateBuffer, lastLearningTime, intrinsicPunishmentTimer, pendingTimeouts,
                           rewardFeedback, isRunning, loopFeedback>>
            /\ UNCHANGED <<autoIsActive, autoTimer, intervalTimers>>
       ELSE \E outcome \in AutoOutcomes :
               LET step == [Quiet("autoTick") EXCEPT
                              !.evaluated = TRUE,
                              !.threw = (outcome = "throw"),
                              !.forwarded = IF outcome = "throw" THEN "none" ELSE outcome]
               IN  /\ TrainerBecomes(CaughtInTick(outcome, autoIsActive, autoTimer,
                                                  intervalTimers))
                   /\ CASE outcome = "reward" ->
                             /\ ManualFeedback("reward", step)
                             /\ rewardFeedback' = now + 1
                             /\ CanvasEffect(UIPaused, now + 1)
                        [] outcome = "punishment" ->
                             /\ ApplyManualPunishment(step)
                             /\ rewardFeedback' = now + 1
                             /\ CanvasEffect(UIPaused, now + 1)
                        [] OTHER ->
                             /\ NoDispatch(step)
                             /\ UNCHANGED <<stateBuffer, lastLearningTime,
                                            intrinsicPunishmentTimer, pendingTimeouts, rewardFeedback, isRunning, loopFeedback>>
    /\ UNCHANGED <<now, config, isPaused, isSettingsOpen, nextStateId, cachedPrediction,
                   cacheAge, selectedScenario, scenario, autoInterval>>
    /\ UNCHANGED nnVars

-----------------------------------------------------------------------------
(* NeuralNetwork: the double-buffered learner of src/src/NeuralNetwork.ts.   *)
(* Its clock counts units of 200 ms, the dataRecordInterval.                 *)

MaxClock == 10      \* the NeuralNetwork's clock stops advancing here
MaxCycles == 2      \* calls of trainModelNonBlocking that can be in progress at once

NoModel == 0
minTrainingExamples == 10       \* trainingData.length < 10
scheduleThreshold == 5          \* trainingData.length >= 5
maxSamples == 50                \* Math.min(50, trainingData.length)
minTrainingGap == 10            \* 2000 ms
neutralFeedbackDuration == 50   \* 10000 ms
memoryCheckInterval == 5        \* 1000 ms
dataRecordInterval == 1         \* 200 ms
oneSecond == 5                  \* 1000 ms
maxRecordsPerSecond == 5
memoryCleanupSize == 50         \* temporalMemory.length > 50
memoryKeepWindow == 75          \* 15000 ms
CycleSlots == 1..MaxCycles

\* the constructor sets lastTrainingTime and lastDataRecordTime to 0, the
\* epoch, which lies further back than every interval of the class
Epoch == 0 - (neutralFeedbackDuration + memoryKeepWindow)

\* Array.slice(-n)
SliceLast(s, n) ==
    IF Len(s) <= n THEN s ELSE SubSeq(s, Len(s) - n + 1, Len(s))

\* the record a NeuralNetwork step leaves in nnLast.  evaluated is the model a
\* predict ran (NoModel when it fell back to zero); startModel and shadow are
\* the active model when the cycle that just ended began and the shadow it
\* created; untrained are the examples the step discarded that no fit was
\* given, retrained the examples given to a fit a second time
NNQuiet(op) ==
    [op |-> op, evaluated |-> NoModel, startModel |-> NoModel, shadow |-> NoModel,
     untrained |-> {}, retrained |-> {}, accepted |-> FALSE, reward |-> "none"]

IdleCycle == [pc |-> "idle", sample |-> <<>>, startModel |-> NoModel, shadow |-> NoModel]

InFlight == {s \in CycleSlots : cycles[s].pc # "idle"}

\* scheduleNonBlockingTraining: queue the callback unless one is queued or a
\* training is in progress
ScheduleNonBlockingTraining(queued, training) ==
    IF queued \/ training THEN queued ELSE TRUE

\* the guard of trainModelNonBlocking (and of executeNonBlockingTraining)
CanTrain(data, training, last) ==
    ~(Len(data) < minTrainingExamples \/ training \/ clock - last < minTrainingGap)

\* trainModelNonBlocking up to its first await (of createModelCopy)
TrainModelNonBlocking ==
    IF CanTrain(trainingData, isTraining, lastTrainingTime) /\ InFlight # CycleSlots
    THEN LET s == CHOOSE c \in CycleSlots : cycles[c].pc = "idle"
         IN  /\ isTraining' = TRUE
             /\ lastTrainingTime' = clock
             /\ cycles' = [cycles EXCEPT ![s] =
                              [pc |-> "cloning", sample |-> <<>>,
                               startModel |-> model, shadow |-> NoModel]]
    ELSE UNCHANGED <<isTraining, lastTrainingTime, cycles>>

\* the callback scheduleNonBlockingTraining queued: executeNonBlockingTraining
ExecuteNonBlockingTraining ==
    /\ trainingQueued
    /\ trainingQueued' = FALSE
    /\ TrainModelNonBlocking
    /\ nnLast' = NNQuiet("executeNonBlockingTraining")
    /\ UNCHANGED <<clock, model, trainingModel, disposed, nextModelId, trainingData,
                   temporalMemory, lastTrainingEvent, lastMemoryCheck,
                   lastDataRecordTime, dataCountCurrentSecond, lastSecondReset,
                   trainedEver>>
    /\ UNCHANGED appVars /\ WrapperIdle

\* forceTraining
ForceTraining ==
    /\ IF Len(trainingData) < minTrainingExamples
       THEN UNCHANGED <<isTraining, lastTrainingTime, cycles>>
       ELSE TrainModelNonBlocking
    /\ nnLast' = NNQuiet("forceTraining")
    /\ UNCHANGED <<clock, model, trainingModel, disposed, nextModelId, trainingData,
                   temporalMemory, trainingQueued, lastTrainingEvent, lastMemoryCheck,
                   lastDataRecordTime, dataCountCurrentSecond, lastSecondReset,
                   trainedEver>>
    /\ UNCHANGED appVars /\ WrapperIdle

\* swapModels: dispose the old active model, make the shadow the active one
SwapModels_DisposesShadow(m, tm, disp) ==
    IF tm # NoModel
    THEN [model |-> tm, trainingModel |-> NoModel, disposed |-> disp \cup {tm}]
    ELSE [model |-> m, trainingModel |-> tm, disposed |-> disp]
SwapModels(m, tm, disp) ==
    IF tm # NoModel
    THEN [model |-> tm, trainingModel |-> NoModel,
          disposed |-> IF m # NoModel /\ m \notin disp THEN disp \cup {m} ELSE disp]
    ELSE [model |-> m, trainingModel |-> tm, disposed |-> disp]

\* the catch block of trainModelNonBlocking: dispose and clear the shadow
DiscardShadow_KeepsHandle(tm, disp) ==
    [trainingModel |-> tm,
     disposed |-> IF tm # NoModel THEN disp \cup {tm} ELSE disp]
DiscardShadow_Leak(tm, disp) ==
    [trainingModel |-> NoModel, disposed |-> disp]
DiscardShadow(tm, disp) ==
    [trainingModel |-> NoModel,
     disposed |-> IF tm # NoModel THEN disp \cup {tm} ELSE disp]

\* the finally block of trainModelNonBlocking, for the cycle in slot s that
\* gave `fitted` to fit
EndCycle_StaysTraining(s, op, fitted) ==
    /\ isTraining' = isTraining
    /\ trainingData' = <<>>
    /\ cycles' = [cycles EXCEPT ![s] = IdleCycle]
    /\ nnLast' = [NNQuiet(op) EXCEPT
                    !.startModel = cycles[s].startModel,
                    !.shadow = cycles[s].shadow]
    /\ trainedEver' = trainedEver \cup Range(fitted)
EndCycle(s, op, fitted) ==
    /\ isTraining' = FALSE
    /\ trainingData' = <<>>
    /\ cycles' = [cycles EXCEPT ![s] = IdleCycle]
    /\ nnLast' = [NNQuiet(op) EXCEPT
                    !.startModel = cycles[s].startModel,
                    !.shadow = cycles[s].shadow,
                    !.untrained = Range(trainingData) \ (Range(fitted) \cup trainedEver),
                    !.retrained = Range(fitted) \cap trainedEver]
    /\ trainedEver' = trainedEver \cup Range(fitted)

\* createModelCopy resolves or throws
CloneResolves ==
    \E s \in CycleSlots : \E ok \in BOOLEAN :
       /\ cycles[s].pc = "cloning"
       /\ IF ok
          THEN /\ trainingModel' = nextModelId
               /\ nextModelId' = nextModelId + 1
               /\ cycles' = [cycles EXCEPT ![s] =
                                [@ EXCEPT !.pc = "fitting", !.shadow = nextModelId,
                                          !.sample = SliceLast(trainingData, maxSamples)]]
               /\ nnLast' = NNQuiet("cloned")
               /\ UNCHANGED <<disposed, isTraining, trainingData, trainedEver>>
          ELSE /\ trainingModel' = DiscardShadow(trainingModel, disposed).trainingModel
               /\ disposed' = DiscardShadow(trainingModel, disposed).disposed
               /\ EndCycle(s, "cloneFailed", <<>>)
               /\ UNCHANGED nextModelId
       /\ UNCHANGED <<clock, model, temporalMemory, trainingQueued, lastTrainingTime,
                      lastTrainingEvent, lastMemoryCheck, lastDataRecordTime,
                      dataCountCurrentSecond, lastSecondReset>>
       /\ UNCHANGED appVars /\ WrapperIdle

\* trainingModel.fit resolves or throws
FitResolves ==
    \E s \in CycleSlots : \E ok \in BOOLEAN :
       /\ cycles[s].pc = "fitting"
       /\ IF ok
          THEN LET swapped == SwapModels(model, trainingModel, disposed)
               IN  /\ model' = swapped.model
                   /\ trainingModel' = swapped.trainingModel
                   /\ disposed' = swapped.disposed
                   /\ EndCycle(s, "trained", cycles[s].sample)
          ELSE /\ trainingModel' = DiscardShadow(trainingModel, disposed).trainingModel
               /\ disposed' = DiscardShadow(trainingModel, disposed).disposed
               /\ EndCycle(s, "fitFailed", cycles[s].sample)
               /\ UNCHANGED model
       /\ UNCHANGED <<clock, nextModelId, temporalMemory, trainingQueued, lastTrainingTime,
                      lastTrainingEvent, lastMemoryCheck, lastDataRecordTime,
                      dataCountCurrentSecond, lastSecondReset>>
       /\ UNCHANGED appVars /\ WrapperIdle

\* the model predict evaluates: the active one, unless it is missing or disposed
PredictModel_PrefersShadow(m, tm, disp) ==
    IF tm # NoModel THEN tm ELSE m
PredictModel(m, tm, disp) ==
    IF m = NoModel \/ m \in disp THEN NoModel ELSE m

\* predict
Predict ==
    /\ nnLast' = [NNQuiet("predict") EXCEPT
                    !.evaluated = PredictModel(model, trainingModel, disposed)]
    /\ UNCHANGED <<clock, model, trainingModel, disposed, nextModelId, trainingData,
                   temporalMemory, isTraining, trainingQueued, lastTrainingTime,
                   lastTrainingEvent, lastMemoryCheck, lastDataRecordTime,
                   dataCountCurrentSecond, lastSecondReset, cycles, trainedEver>>
    /\ UNCHANGED appVars /\ WrapperIdle

\* clearProcessedTemporalMemory
ClearProcessedTemporalMemory_KeepsAll(memory, processed) == memory
ClearProcessedTemporalMemory(memory, processed) ==
    SelectSeq(memory, LAMBDA e : e \notin Range(processed))

\* checkForTimeoutPunishment goes past its two early returns: a second since
\* the last check, and ten seconds since the last training event
NeutralFeedbackDue_NoWait ==
    ~(clock - lastMemoryCheck < memoryCheckInterval)
NeutralFeedbackDue ==
    /\ ~(clock - lastMemoryCheck < memoryCheckInterval)
    /\ ~(clock - lastTrainingEvent < neutralFeedbackDuration)

\* checkForTimeoutPunishment, given the temporal memory recordAction left
CheckForTimeoutPunishment(memory) ==
    IF clock - lastMemoryCheck < memoryCheckInterval
    THEN /\ temporalMemory' = memory
         /\ UNCHANGED <<lastMemoryCheck, lastTrainingEvent, trainingData, trainingQueued>>
    ELSE /\ lastMemoryCheck' = clock
         /\ LET statesToProcess == SelectSeq(memory, LAMBDA e : e >= lastTrainingEvent)
                data == trainingData \o statesToProcess
            IN  IF ~NeutralFeedbackDue
                   \/ Len(statesToProcess) = 0
                THEN /\ temporalMemory' = memory
                     /\ UNCHANGED <<lastTrainingEvent, trainingData, trainingQueued>>
                ELSE /\ lastTrainingEvent' = clock
                     /\ trainingData' = data
                     /\ temporalMemory' = ClearProcessedTemporalMemory(memory, statesToProcess)
                     /\ trainingQueued' =
                            IF Len(data) >= minTrainingExamples
                            THEN ScheduleNonBlockingTraining(trainingQueued, isTraining)
                            ELSE trainingQueued

\* recordAction: rate limiting, the push into temporal memory, its periodic
\* clean-up and the timeout check
RateLimited_CapOnly(count) ==
    count >= maxRecordsPerSecond
RateLimited(count) ==
    \/ count >= maxRecordsPerSecond
    \/ clock - lastDataRecordTime < dataRecordInterval

RecordAction ==
    /\ LET resetDue == clock - lastSecondReset >= oneSecond
           count == IF resetDue THEN 0 ELSE dataCountCurrentSecond
           limited == RateLimited(count)
           pushed == Append(temporalMemory, clock)
           kept == IF Len(pushed) > memoryCleanupSize
                   THEN SelectSeq(pushed, LAMBDA e : clock - e < memoryKeepWindow)
                   ELSE pushed
       IN  /\ lastSecondReset' = IF resetDue THEN clock ELSE lastSecondReset
           /\ IF limited
              THEN /\ dataCountCurrentSecond' = count
                   /\ UNCHANGED <<lastDataRecordTime, temporalMemory, lastMemoryCheck,
                                  lastTrainingEvent, trainingData, trainingQueued>>
              ELSE /\ lastDataRecordTime' = clock
                   /\ dataCountCurrentSecond' = count + 1
                   /\ CheckForTimeoutPunishment(kept)
           /\ nnLast' = [NNQuiet("recordAction") EXCEPT
                           !.accepted = ~limited,
                           !.reward = IF ~limited /\ NeutralFeedbackDue
                                      THEN "zero" ELSE "none"]
    /\ UNCHANGED <<clock, model, trainingModel, disposed, nextModelId, isTraining,
                   lastTrainingTime, cycles, trainedEver>>
    /\ UNCHANGED appVars /\ WrapperIdle

\* giveManualReward and giveManualPunishment differ in the sign of the reward
\* they give the examples: both turn the temporal memory of the last ten
\* seconds into examples, clear it, and ask for a training from 5 examples on
GiveManualFeedback(op) ==
    /\ lastTrainingEvent' = clock
    /\ LET statesToProcess ==
               SelectSeq(temporalMemory, LAMBDA e : e >= clock - neutralFeedbackDuration)
           data == trainingData \o statesToProcess
       IN  /\ trainingData' = data
           /\ temporalMemory' = ClearProcessedTemporalMemory(temporalMemory, statesToProcess)
           /\ trainingQueued' =
                  IF Len(data) >= scheduleThreshold
                  THEN ScheduleNonBlockingTraining(trainingQueued, isTraining)
                  ELSE trainingQueued
    /\ nnLast' = [NNQuiet(op) EXCEPT
                    !.reward = IF op = "giveManualReward" THEN "positive" ELSE "negative"]
    /\ UNCHANGED <<clock, model, trainingModel, disposed, nextModelId, isTraining,
                   lastTrainingTime, lastMemoryCheck, lastDataRecordTime,
                   dataCountCurrentSecond, lastSecondReset, cycles, trainedEver>>
    /\ UNCHANGED appVars /\ WrapperIdle

GiveManualReward == GiveManualFeedback("giveManualReward")

GiveManualPunishment == GiveManualFeedback("giveManualPunishment")

\* 200 ms pass
ClockTick ==
    /\ clock < MaxClock
    /\ clock' = clock + 1
    /\ nnLast' = NNQuiet("clockTick")
    /\ UNCHANGED <<model, trainingModel, disposed, nextModelId, trainingData,
                   temporalMemory, isTraining, trainingQueued, lastTrainingTime,
                   lastTrainingEvent, lastMemoryCheck, lastDataRecordTime,
                   dataCountCurrentSecond, lastSecondReset, cycles, trainedEver>>
    /\ UNCHANGED appVars /\ WrapperIdle

\* nothing is called for 200 ms short of ten seconds
idleGap == neutralFeedbackDuration - 1

MaxIdles == 1      \* stretches of idle time

LongIdle ==
    /\ clock + idleGap <= MaxClock + MaxIdles * idleGap
    /\ clock' = clock + idleGap
    /\ nnLast' = NNQuiet("longIdle")
    /\ UNCHANGED <<model, trainingModel, disposed, nextModelId, trainingData,
                   temporalMemory, isTraining, trainingQueued, lastTrainingTime,
                   lastTrainingEvent, lastMemoryCheck, lastDataRecordTime,
                   dataCountCurrentSecond, lastSecondReset, cycles, trainedEver>>
    /\ UNCHANGED appVars /\ WrapperIdle

\* NeuralNetworkWrapper.trainOnExperience called with a batch of one state
CallTrainOnExperience ==
    /\ TrainOnExperience(<<nextStateId>>)
    /\ UNCHANGED <<now, stateBuffer, lastLearningTime, intrinsicPunishmentTimer, pendingTimeouts, config,
                   isPaused, isSettingsOpen, rewardFeedback, isRunning, loopFeedback, nextStateId,
                   cachedPrediction, cacheAge, selectedScenario, scenario,
                   autoIsActive, autoTimer, intervalTimers, autoInterval, delivered, lastStep>>
    /\ UNCHANGED nnVars

\* predict called by the wrapper's owner, TensorFlow failing during it or not
CallPredict ==
    /\ \E fault \in BOOLEAN : WrapperPredict(fault)
    /\ UNCHANGED <<now, stateBuffer, lastLearningTime, intrinsicPunishmentTimer, pendingTimeouts, config,
                   isPaused, isSettingsOpen, rewardFeedback, isRunning, loopFeedback, nextStateId,
                   wrapperIsTraining, fitsInFlight, selectedScenario, scenario,
                   autoIsActive, autoTimer, intervalTimers, autoInterval, delivered, lastStep>>
    /\ UNCHANGED nnVars

\* RewardManager.addState called by its owner with a new state
CallAddState ==
    /\ nextStateId <= maxBufferSize + MaxOverflow
    /\ stateBuffer' = AddState(stateBuffer, nextStateId)
    /\ nextStateId' = nextStateId + 1
    /\ NoDispatch([Quiet("addState") EXCEPT !.appended = nextStateId])
    /\ UNCHANGED <<now, lastLearningTime, intrinsicPunishmentTimer, pendingTimeouts, config,
                   isPaused, isSettingsOpen, rewardFeedback, isRunning, loopFeedback,
                   cachedPrediction, cacheAge, selectedScenario, scenario, autoIsActive,
                   autoTimer, intervalTimers, autoInterval>>
    /\ UNCHANGED nnVars

\* RewardManager.reset called by its owner
CallReset ==
    /\ stateBuffer' = ClearStateBuffer
    /\ lastLearningTime' = now
    /\ intrinsicPunishmentTimer' = ResetIntrinsicPunishmentTimer(config)
    /\ pendingTimeouts' = SetupTimeouts(config, intrinsicPunishmentTimer, pendingTimeouts)
    /\ NoDispatch(Quiet("reset"))
    /\ UNCHANGED <<now, config,
                   isPaused, isSettingsOpen, rewardFeedback, isRunning, loopFeedback, nextStateId,
                   cachedPrediction, cacheAge, selectedScenario, scenario, autoIsActive,
                   autoTimer, intervalTimers, autoInterval>>
    /\ UNCHANGED nnVars

\* what a call of one RewardManager method leaves of the rest of the App
RewardManagerCall(op) ==
    /\ NoDispatch(Quiet(op))
    /\ UNCHANGED <<now, isPaused, isSettingsOpen, rewardFeedback, isRunning,
                   loopFeedback, nextStateId, cachedPrediction, cacheAge, selectedScenario,
                   scenario, autoIsActive, autoTimer, intervalTimers, autoInterval>>
    /\ UNCHANGED nnVars

\* RewardManager.pause called by its owner
CallPause ==
    /\ intrinsicPunishmentTimer' = PauseTimer(intrinsicPunishmentTimer)
    /\ pendingTimeouts' = ClearedTimeouts(intrinsicPunishmentTimer, pendingTimeouts)
    /\ UNCHANGED <<stateBuffer, lastLearningTime, config>>
    /\ RewardManagerCall("pause")

\* RewardManager.resume called by its owner
CallResume ==
    /\ intrinsicPunishmentTimer' = ResumeTimer(config, intrinsicPunishmentTimer)
    /\ pendingTimeouts' =
           PauseEffectTimeouts(FALSE, config, intrinsicPunishmentTimer, pendingTimeouts)
    /\ UNCHANGED <<stateBuffer, lastLearningTime, config>>
    /\ RewardManagerCall("resume")

\* RewardManager.updateConfig called by its owner with any configuration
CallUpdateConfig ==
    /\ \E cfg \in Configs :
          /\ config' = cfg
          /\ intrinsicPunishmentTimer' = SetupIntrinsicPunishment(cfg)
          /\ pendingTimeouts' =
                 SetupTimeouts(cfg, intrinsicPunishmentTimer, pendingTimeouts)
    /\ UNCHANGED <<stateBuffer, lastLearningTime>>
    /\ RewardManagerCall("updateConfig")

\* RewardManager.dispose: the timer is cleared, then the state buffer
CallDisposeRewardManager ==
    /\ intrinsicPunishmentTimer' = PauseTimer(intrinsicPunishmentTimer)
    /\ pendingTimeouts' = ClearedTimeouts(intrinsicPunishmentTimer, pendingTimeouts)
    /\ stateBuffer' = ClearStateBuffer
    /\ UNCHANGED <<lastLearningTime, config>>
    /\ RewardManagerCall("disposeRewardManager")

\* getCachedPrediction called by the wrapper's owner
CallGetCachedPrediction ==
    /\ wLast' = [WQuiet("getCachedPrediction") EXCEPT !.returned = GetCachedPrediction]
    /\ UNCHANGED wModelVars
    /\ UNCHANGED appVars
    /\ UNCHANGED nnVars

\* performance.now() advances by one step of the model's clock
PerformanceNowAdvances ==
    /\ cacheAge < predictionCacheTimeout
    /\ cacheAge' = IF cacheAge + cacheTimeStep < predictionCacheTimeout
                   THEN cacheAge + cacheTimeStep
                   ELSE predictionCacheTimeout
    /\ NoDispatch(Quiet("performanceNow"))
    /\ UNCHANGED <<now, stateBuffer, lastLearningTime, intrinsicPunishmentTimer, pendingTimeouts, config,
                   isPaused, isSettingsOpen, rewardFeedback, isRunning, loopFeedback, nextStateId,
                   cachedPrediction, selectedScenario, scenario, autoIsActive,
                   autoTimer, intervalTimers, autoInterval>>
    /\ UNCHANGED nnVars

\* resetModel called by the wrapper's owner
CallResetModel ==
    /\ ResetModel(architecture)
    /\ wLast' = [WQuiet("resetModel") EXCEPT !.rebuilt = TRUE]
    /\ UNCHANGED architecture
    /\ UNCHANGED appVars
    /\ UNCHANGED nnVars

\* switchArchitecture: a topology other than the present one is stored and
\* the model reset, so that createModel builds it; the present one is a no-op
SwitchArchitecture(newArchitecture) ==
    /\ IF newArchitecture # architecture
       THEN /\ architecture' = newArchitecture
            /\ ResetModel(newArchitecture)
            /\ wLast' = [WQuiet("switchArchitecture") EXCEPT
                            !.topology = newArchitecture, !.rebuilt = TRUE]
       ELSE /\ wLast' = [WQuiet("switchArchitecture") EXCEPT
                            !.topology = newArchitecture]
            /\ UNCHANGED wModelVars
    /\ UNCHANGED appVars
    /\ UNCHANGED nnVars

CallSwitchArchitecture == \E a \in Architectures : SwitchArchitecture(a)

\* NeuralNetwork.dispose, called while no training callback is queued: both
\* models are disposed and their fields set to null.  isTraining is left as
\* it is, and a cycle in progress goes on to its finally block
NNDispose ==
    /\ ~trainingQueued
    /\ disposed' = disposed \cup ({model, trainingModel} \ {NoModel})
    /\ model' = NoModel
    /\ trainingModel' = NoModel
    /\ nnLast' = NNQuiet("dispose")
    /\ UNCHANGED <<clock, nextModelId, trainingData, temporalMemory, isTraining,
                   trainingQueued, lastTrainingTime, lastTrainingEvent, lastMemoryCheck,
                   lastDataRecordTime, dataCountCurrentSecond, lastSecondReset, cycles,
                   trainedEver>>
    /\ UNCHANGED appVars /\ WrapperIdle

\* NeuralNetworkWrapper.dispose: this.model and the optimizer are disposed; no
\* field changes, and a fit being awaited is left to throw or to resolve
CallDisposeWrapper ==
    /\ wLast' = WQuiet("dispose")
    /\ UNCHANGED wModelVars
    /\ UNCHANGED appVars
    /\ UNCHANGED nnVars

\* the NeuralNetwork after ten actions recorded 200 ms apart from its
\* construction on and a manual reward: ten examples wait for a training and
\* the training callback is queued
InitNNAfterFeedback ==
    /\ clock = minTrainingExamples - 1
    /\ model = 1
    /\ trainingModel = NoModel
    /\ disposed = {}
    /\ nextModelId = 2
    /\ trainingData = [i \in 1..minTrainingExamples |-> i - 1]
    /\ temporalMemory = <<>>
    /\ isTraining = FALSE
    /\ trainingQueued = TRUE
    /\ lastTrainingTime = Epoch
    /\ lastTrainingEvent = minTrainingExamples - 1
    /\ lastMemoryCheck = memoryCheckInterval
    /\ lastDataRecordTime = minTrainingExamples - 1
    /\ dataCountCurrentSecond = maxRecordsPerSecond
    /\ lastSecondReset = oneSecond
    /\ cycles = [s \in CycleSlots |-> IdleCycle]
    /\ trainedEver = {}
    /\ nnLast = [NNQuiet("giveManualReward") EXCEPT !.reward = "positive"]

\* the NeuralNetwork after its constructor
InitNN ==
    /\ clock = 0
    /\ model = 1
    /\ trainingModel = NoModel
    /\ disposed = {}
    /\ nextModelId = 2
    /\ trainingData = <<>>
    /\ temporalMemory = <<>>
    /\ isTraining = FALSE
    /\ trainingQueued = FALSE
    /\ lastTrainingTime = Epoch
    /\ lastTrainingEvent = 0
    /\ lastMemoryCheck = 0
    /\ lastDataRecordTime = Epoch
    /\ dataCountCurrentSecond = 0
    /\ lastSecondReset = 0
    /\ cycles = [s \in CycleSlots |-> IdleCycle]
    /\ trainedEver = {}
    /\ nnLast = NNQuiet("init")

-----------------------------------------------------------------------------
(* The application after it is mounted: the default configuration, nothing   *)
(* buffered, the canvas loop running                                         *)

InitAppWith(cfg) ==
    /\ now = 0
    /\ stateBuffer = <<>>
    /\ lastLearningTime = 0
    /\ intrinsicPunishmentTimer = NoTimer
    /\ pendingTimeouts = 0
    /\ config = cfg
    /\ isPaused = FALSE
    /\ isSettingsOpen = FALSE
    /\ rewardFeedback = NoFeedback
    /\ isRunning = TRUE
    /\ loopFeedback = NoFeedback
    /\ nextStateId = 1
    /\ wrapperIsTraining = FALSE
    /\ fitsInFlight = 0
    /\ cachedPrediction = FALSE
    /\ cacheAge = predictionCacheTimeout
    /\ selectedScenario = FALSE
    /\ scenario = FALSE
    /\ autoIsActive = FALSE
    /\ autoTimer = FALSE
    /\ intervalTimers = 0
    /\ autoInterval = 200
    /\ delivered = [s \in 1..MaxStates |-> 0]
    /\ lastStep = [op |-> "init", paused |-> FALSE, event |-> "none", states |-> <<>>,
                   rewards |-> <<>>, rmTimer |-> NoTimer, dropped |-> FALSE, training |-> FALSE, moved |-> FALSE,
                   output |-> "none", appended |-> 0, evaluated |-> FALSE, forwarded |-> "none",
                   threw |-> FALSE]

InitApp == InitAppWith(DEFAULT_CONFIG)

\* the NeuralNetworkWrapper after its constructor, which App calls with the
\* default configuration's networkArchitecture
InitWrapper ==
    /\ architecture = "simple-mlp"
    /\ modelArch = "simple-mlp"
    /\ sequenceBuffer = <<>>
    /\ wLast = WQuiet("none")

Init == InitApp /\ InitNN /\ InitWrapper

\* the controls and the control loop
Next ==
    \/ RenderFrame
    \/ HandleReward
    \/ HandlePunishment
    \/ HandleReset
    \/ TogglePause
    \/ ToggleSettings
    \/ UpdateConfig
    \/ TimerExpires
    \/ FitDone
    \/ Tick
    \/ CacheExpires

Spec == Init /\ [][Next]_vars

\* the demo controls and the AutoTrainer of src/unnamed/part_014 (whose
\* renderFrame, unlike App.tsx's, moves the agent during a training too)
NextAuto ==
    \/ RenderFrameDemo
    \/ HandleReward
    \/ TogglePause
    \/ ToggleSettings
    \/ FitDone
    \/ HandleDemoScenarioSelect
    \/ HandleDemoStart
    \/ HandleDemoStop
    \/ AutoTick

SpecAuto == Init /\ [][NextAuto]_vars

\* the NeuralNetwork under its callers, its callbacks and its clock, next to
\* the NeuralNetworkWrapper's training entry point
NextNN ==
    \/ ClockTick
    \/ RecordAction
    \/ GiveManualReward
    \/ GiveManualPunishment
    \/ ExecuteNonBlockingTraining
    \/ ForceTraining
    \/ CloneResolves
    \/ FitResolves
    \/ Predict
    \/ CallTrainOnExperience
    \/ FitDone

SpecNN == Init /\ [][NextNN]_vars

\* the AutoTrainer under its owner's calls and its interval timer, next to
\* the control loop
NextTrainer ==
    \/ CallStart
    \/ CallStop
    \/ CallSetScenario
    \/ CallSetInterval
    \/ CallDispose
    \/ AutoTick
    \/ RenderFrameDemo
    \/ FitDone

SpecTrainer == Init /\ [][NextTrainer]_vars

\* the NeuralNetwork's temporal memory under recordAction and the manual
\* feedback, with idle stretches of just under ten seconds
NextMemory ==
    \/ ClockTick
    \/ LongIdle
    \/ RecordAction
    \/ GiveManualReward
    \/ GiveManualPunishment

SpecMemory == Init /\ [][NextMemory]_vars

\* the NeuralNetworkWrapper under its callers and its awaited fit
NextWrapper ==
    \/ CallPredict
    \/ CallTrainOnExperience
    \/ FitDone
    \/ CallResetModel
    \/ CallSwitchArchitecture
    \/ CacheExpires
    \/ PerformanceNowAdvances
    \/ CallGetCachedPrediction

SpecWrapper == Init /\ [][NextWrapper]_vars

\* The training cycles of the NeuralNetwork and of the NeuralNetworkWrapper
\* with the model reset, switched or disposed while they run.  An awaited
\* promise (createModelCopy, fit) is settled in the end: TensorFlow resolves
\* it or, for a model disposed under it, rejects it
InitCycles == InitApp /\ InitNNAfterFeedback /\ InitWrapper

NextCycles ==
    \/ ExecuteNonBlockingTraining
    \/ ForceTraining
    \/ CloneResolves
    \/ FitResolves
    \/ NNDispose
    \/ CallTrainOnExperience
    \/ FitDone
    \/ CallResetModel
    \/ CallSwitchArchitecture
    \/ CallDisposeWrapper

SpecCycles ==
    /\ InitCycles
    /\ [][NextCycles]_vars
    /\ WF_vars(CloneResolves)
    /\ WF_vars(FitResolves)
    /\ WF_vars(FitDone)

\* the RewardManager under its owner's calls in any order, next to the
\* control loop, the feedback handlers and the intrinsic timer
NextTimer ==
    \/ CallUpdateConfig
    \/ CallPause
    \/ CallResume
    \/ CallReset
    \/ CallDisposeRewardManager
    \/ HandleReward
    \/ HandlePunishment
    \/ TimerExpires
    \/ Tick
    \/ RenderFrame
    \/ FitDone

SpecTimer == Init /\ [][NextTimer]_vars

\* the RewardManager's state buffer under addState and reset, filled beyond
\* its capacity
NextBuffer ==
    \/ CallAddState
    \/ CallReset

SpecBuffer == Init /\ [][NextBuffer]_vars

\* The reward shaping of manual feedback under the amounts and toggles of the
\* settings panel: the application as it is once the panel has set them
\* (two of the sliders' values, 0 to 2 in steps of 0.1, and their default),
\* with manual punishment enabled and the intrinsic timer off.
RewardLevels == {0, 1 * Thousandth, 2 * Thousandth}

ShapeConfigs == [intrinsicPunishment : {FALSE},
                 intrinsicTimeframe : {DEFAULT_CONFIG.intrinsicTimeframe},
                 gradientReward : BOOLEAN, manualPunishmentEnabled : {TRUE},
                 gradientPunishment : BOOLEAN,
                 rewardMin : RewardLevels, rewardMax : RewardLevels,
                 gradientPunishmentMin : RewardLevels,
                 gradientPunishmentMax : RewardLevels]

InitShape == InitNN /\ InitWrapper /\ \E cfg \in ShapeConfigs : InitAppWith(cfg)

NextShape ==
    \/ RenderFrame
    \/ HandleReward
    \/ HandlePunishment
    \/ FitDone

SpecShape == InitShape /\ [][NextShape]_vars

-----------------------------------------------------------------------------
(* Properties *)

\* C1: no buffered state is delivered in more than one LearningEvent, and a
\* step that dispatches an event leaves in the state buffer none of the states
\* the buffer held when the event was dispatched.
C1_NoDoubleDelivery ==
    /\ [](\A s \in DOMAIN delivered : delivered[s] <= 1)
    /\ [](\A s \in Range(stateBuffer) : delivered[s] = 0)
    /\ [][delivered' # delivered => Range(stateBuffer') \cap Range(stateBuffer) = {}]_vars

\* C1 happens: with gradient rewards, a first event has carried state 1 and a
\* second reward carries the states 2 and 3 fed after it, and only those
C1_Witness ==
    /\ config.gradientReward
    /\ lastStep.event = "reward"
    /\ lastStep.states = <<2, 3>>
    /\ delivered[1] = 1
    /\ stateBuffer = <<>>

\* C2: at most one training cycle is in flight: a call of trainModelNonBlocking
\* goes past its guard only while isTraining is false, and a call of the
\* wrapper's trainOnExperience reaches model.fit only while no earlier call is
\* in progress.
C2_OneCycleInFlight ==
    /\ [](Cardinality(InFlight) <= 1 /\ (InFlight # {} => isTraining))
    /\ [](fitsInFlight <= 1 /\ (fitsInFlight > 0 => wrapperIsTraining))
    /\ [][Cardinality(InFlight') > Cardinality(InFlight) => ~isTraining]_vars
    /\ [][fitsInFlight' > fitsInFlight => ~wrapperIsTraining]_vars

\* C2 happens: forceTraining was called with enough examples while a cycle was
\* in flight, and a fit of the wrapper is in flight too
C2_Witness ==
    /\ nnLast.op = "forceTraining"
    /\ Len(trainingData) >= minTrainingExamples
    /\ isTraining
    /\ Cardinality(InFlight) = 1
    /\ wrapperIsTraining
    /\ fitsInFlight = 1

C4_AtomicSwap ==
    /\ [](model # NoModel /\ model \notin disposed)
    /\ [][cycles' # cycles /\ nnLast'.op = "trained" =>
            /\ trainingModel # NoModel
            /\ model' = trainingModel
            /\ trainingModel' = NoModel
            /\ model \in disposed']_vars

\* C4 happens: a cycle has succeeded, and the shadow it trained is now active
C4_Witness ==
    /\ nnLast.op = "trained"
    /\ model = nnLast.shadow
    /\ nnLast.startModel \in disposed

C6_FeedbackDuringTrainingRetained ==
    lastStep.event # "none" /\ lastStep.training => ~lastStep.dropped

\* C7: a predict during a training cycle evaluates the active model, which is
\* there and not disposed, and never the shadow being trained.
C7_PredictUsesActiveModel ==
    nnLast.op = "predict" /\ isTraining =>
        /\ nnLast.evaluated # NoModel
        /\ nnLast.evaluated = model
        /\ nnLast.evaluated # trainingModel
        /\ nnLast.evaluated \notin disposed

\* C7 happens: a predict ran while the shadow was being fitted
C7_Witness ==
    /\ nnLast.op = "predict"
    /\ isTraining
    /\ trainingModel # NoModel
    /\ nnLast.evaluated = model

C9_NoIntrinsicWhilePaused ==
    /\ UIPaused => intrinsicPunishmentTimer = NoTimer
    /\ ~(lastStep.event = "intrinsic" /\ lastStep.paused)

\* C10: while the UI is paused the AutoTrainer evaluates no predicate and
\* forwards no reward or punishment.
C10_AutoTrainerPausedWithUI ==
    lastStep.op = "autoTick" /\ lastStep.paused =>
        ~lastStep.evaluated /\ lastStep.forwarded = "none"

\* the steps of the Reward and Punish buttons' handlers
FeedbackHandlers == {"handleReward", "handlePunishment"}

\* C11: handleReward or handlePunishment invoked while the UI is paused
\* (isPaused set or the settings panel open) dispatches no feedback event,
\* leaves the state buffer unchanged and does not arm the intrinsic timer.
C11_FeedbackOnlyWhileUnpaused ==
    [][UIPaused /\ lastStep'.op \in FeedbackHandlers =>
          /\ lastStep'.event = "none"
          /\ delivered' = delivered
          /\ stateBuffer' = stateBuffer
          /\ lastStep'.rmTimer = intrinsicPunishmentTimer]_vars

\* C12: a pause followed by a resume preserves the buffered states exactly.
\* The step that pauses and the step that resumes leave the state buffer as
\* it is, and while the UI is paused nothing is appended to the buffer and no
\* part of it is lost: it changes only by being consumed whole, by a feedback
\* event or by the Reset button.
C12_PauseResumePreservesBuffer ==
    /\ [][UIPaused' # UIPaused => stateBuffer' = stateBuffer]_vars
    /\ [][UIPaused /\ stateBuffer' # stateBuffer =>
             /\ stateBuffer' = <<>>
             /\ lastStep'.event # "none" \/ lastStep'.op = "handleReset"]_vars

\* C12 happens: the Pause button resumed the loop with two states buffered
C12_Witness ==
    /\ lastStep.op = "togglePause"
    /\ lastStep.paused
    /\ ~UIPaused
    /\ isRunning
    /\ stateBuffer = <<1, 2>>

\* the intrinsic timer resetIntrinsicPunishmentTimer leaves at the present time
ArmedNow == IF config.intrinsicPunishment
            THEN now + config.intrinsicTimeframe
            ELSE NoTimer

\* C13: every feedback event restarts the intrinsic timeout.  A pending timer
\* is never due before the last feedback event's time plus intrinsicTimeframe;
\* a manual event leaves the RewardManager's timer armed for a full
\* intrinsicTimeframe from now (when the feature is on), and after any event
\* the timer is either cleared or due a full intrinsicTimeframe from now; so
\* an intrinsic event fires no earlier than intrinsicTimeframe after the
\* feedback event before it.
C13_FeedbackRestartsTimeout ==
    /\ [](intrinsicPunishmentTimer # NoTimer =>
             intrinsicPunishmentTimer >= lastLearningTime + config.intrinsicTimeframe)
    /\ [][lastStep'.event # "none" =>
             /\ lastStep'.op # "timer" => lastStep'.rmTimer = ArmedNow
             /\ intrinsicPunishmentTimer' \in {NoTimer, now + config.intrinsicTimeframe}
             /\ config.intrinsicPunishment /\ ~UIPaused =>
                    intrinsicPunishmentTimer' = now + config.intrinsicTimeframe]_vars
    /\ [][lastStep'.event = "intrinsic" =>
             now >= lastLearningTime + config.intrinsicTimeframe]_vars

\* C13 happens: a manual reward at time 1 restarted a pending timer
C13_Witness ==
    /\ lastStep.event = "reward"
    /\ ~lastStep.paused
    /\ config.intrinsicPunishment
    /\ now = 1
    /\ lastLearningTime = 1
    /\ lastStep.rmTimer = 1 + config.intrinsicTimeframe
    /\ intrinsicPunishmentTimer = 1 + config.intrinsicTimeframe

C16_EmptyExpiryRearms ==
    [][lastStep'.op = "timer" /\ Len(stateBuffer) = 0 =>
          /\ lastStep'.event = "none"
          /\ delivered' = delivered
          /\ UNCHANGED <<stateBuffer, lastLearningTime, wrapperIsTraining>>
          /\ intrinsicPunishmentTimer' = now + config.intrinsicTimeframe]_vars

\* C16 happens: the timer expired at time 1 on an empty buffer and is pending
\* again
C16_Witness ==
    /\ lastStep.op = "timer"
    /\ lastStep.event = "none"
    /\ stateBuffer = <<>>
    /\ now = 1
    /\ intrinsicPunishmentTimer = 1 + config.intrinsicTimeframe

\* C17: an intrinsic timer is pending only while config.intrinsicPunishment is
\* true.  An updateConfig that disables the feature leaves no timer pending,
\* one that enables it (or keeps it enabled) leaves a timer armed for the
\* configuration's intrinsicTimeframe, and an intrinsic event fires only with
\* the feature enabled.
C17_TimerOnlyWhileEnabled ==
    /\ [](intrinsicPunishmentTimer # NoTimer => config.intrinsicPunishment)
    /\ [][lastStep'.op = "updateConfig" =>
             intrinsicPunishmentTimer' =
                 IF config'.intrinsicPunishment
                 THEN now + config'.intrinsicTimeframe
                 ELSE NoTimer]_vars
    /\ [][lastStep'.event = "intrinsic" => config.intrinsicPunishment]_vars

\* C17 happens: at time 1 an updateConfig with the feature enabled armed a timer
C17_Witness ==
    /\ lastStep.op = "updateConfig"
    /\ config.intrinsicPunishment
    /\ now = 1
    /\ intrinsicPunishmentTimer = 1 + config.intrinsicTimeframe

\* C18: a manual reward or punishment applied while the state buffer is empty
\* is a no-op of the RewardManager: no LearningEvent is emitted, and the
\* buffer, the last-learning time and the pending intrinsic timer are as they
\* were when applyManualReward / applyManualPunishment returns.
C18_EmptyBufferFeedbackIsNoOp ==
    [][lastStep'.op \in FeedbackHandlers /\ Len(stateBuffer) = 0 =>
          /\ lastStep'.event = "none"
          /\ lastStep'.states = <<>> /\ lastStep'.rewards = <<>>
          /\ delivered' = delivered
          /\ UNCHANGED <<stateBuffer, lastLearningTime, wrapperIsTraining>>
          /\ lastStep'.rmTimer = intrinsicPunishmentTimer]_vars

\* C18 happens: at time 1 the Reward button was pressed on an empty buffer
\* while a timer armed at time 0 was pending
C18_Witness ==
    /\ lastStep.op = "handleReward"
    /\ ~lastStep.paused
    /\ lastStep.event = "none"
    /\ stateBuffer = <<>>
    /\ now = 1
    /\ lastStep.rmTimer # NoTimer
    /\ lastStep.rmTimer = config.intrinsicTimeframe

\* C19: when manualPunishmentEnabled is false, applyManualPunishment is a
\* no-op: no LearningEvent is emitted, the state buffer is not drained and the
\* RewardManager's intrinsic timer is as it was when the call returns.
C19_DisabledPunishmentIsNoOp ==
    [][/\ lastStep'.op = "autoTick"
       /\ lastStep'.forwarded = "punishment"
       /\ ~config.manualPunishmentEnabled
       =>
          /\ lastStep'.event = "none"
          /\ delivered' = delivered
          /\ UNCHANGED <<stateBuffer, lastLearningTime, wrapperIsTraining>>
          /\ lastStep'.rmTimer = intrinsicPunishmentTimer]_vars

\* C19 happens: the AutoTrainer forwarded a punishment with manual punishment
\* disabled, a state buffered and the intrinsic timer pending
C19_Witness ==
    /\ lastStep.op = "autoTick"
    /\ lastStep.forwarded = "punishment"
    /\ ~config.manualPunishmentEnabled
    /\ lastStep.event = "none"
    /\ Len(stateBuffer) >= 1
    /\ lastStep.rmTimer # NoTimer

NonDecreasing(rewards) ==
    \A i \in 1..Len(rewards) : \A j \in i..Len(rewards) : rewards[i] <= rewards[j]

\* C21: for every configured (rewardMin, rewardMax) and every number n >= 1 of
\* buffered states, a gradient reward carries exactly n rewards that never
\* decrease from the oldest state to the newest, the newest state's reward
\* being rewardMax.
C21_GradientRewardsRiseToMax ==
    [][lastStep'.event = "reward" /\ config.gradientReward =>
          /\ Len(stateBuffer) >= 1
          /\ lastStep'.states = stateBuffer
          /\ Len(lastStep'.rewards) = Len(stateBuffer)
          /\ NonDecreasing(lastStep'.rewards)
          /\ lastStep'.rewards[Len(stateBuffer)] = config.rewardMax]_vars

\* C22: a manual punishment is shaped as a gradient over the whole buffer
\* exactly when gradientPunishment is enabled, whatever gradientReward is, and
\* otherwise trains on the single most recent state.
C22_PunishmentShapingFollowsItsOwnToggle ==
    [][lastStep'.event = "punishment" =>
          IF config.gradientPunishment
          THEN /\ lastStep'.states = stateBuffer
               /\ Len(lastStep'.rewards) = Len(stateBuffer)
          ELSE /\ lastStep'.states = <<stateBuffer[Len(stateBuffer)]>>
               /\ Len(lastStep'.rewards) = 1]_vars

\* C23: a gradient punishment gives every state a reward <= 0 and weights
\* recent states more heavily: magnitudes never decrease from the oldest
\* state to the newest, whose reward is -gradientPunishmentMax.
C23_GradientPunishmentWeightsRecentMost ==
    [][/\ lastStep'.event = "punishment"
       /\ config.gradientPunishment
       /\ config.gradientReward
       => LET r == lastStep'.rewards
              n == Len(stateBuffer)
          IN  /\ Len(r) = n
              /\ \A i \in 1..n : r[i] <= 0
              /\ \A i \in 1..n : \A j \in i..n : 0 - r[i] <= 0 - r[j]
              /\ r[n] = 0 - config.gradientPunishmentMax]_vars

\* ---------------------------------------------------------------------------
\* Reset, topology switch and prediction of the NeuralNetworkWrapper
\* ---------------------------------------------------------------------------

\* C24: after the Reset button's handler the state buffer is empty, no
\* training is in flight (isTraining is false and no fit is being awaited),
\* the active model is a newly created one of the present topology with an
\* empty sequence buffer, and (the UI not being paused) the intrinsic timer is
\* armed for a full intrinsicTimeframe when the feature is enabled.
C24_ResetLeavesNothingInFlight ==
    [][lastStep'.op = "handleReset" =>
          /\ stateBuffer' = <<>>
          /\ ~wrapperIsTraining'
          /\ fitsInFlight' = 0
          /\ wLast'.rebuilt
          /\ modelArch' = architecture'
          /\ sequenceBuffer' = <<>>
          /\ config.intrinsicPunishment /\ ~UIPaused =>
                 intrinsicPunishmentTimer' = now + config.intrinsicTimeframe]_vars

C26_FailedPredictReturnsZero ==
    wLast.op = "predict" /\ wLast.fault => ~wLast.threw

\* ---------------------------------------------------------------------------
\* Temporal memory of the NeuralNetwork (SpecMemory)
\* ---------------------------------------------------------------------------

\* the examples a step pushed into trainingData
Converted == SubSeq(trainingData', Len(trainingData) + 1, Len(trainingData'))

NoDuplicates(seq) ==
    \A i \in 1..Len(seq) : \A j \in 1..Len(seq) : seq[i] = seq[j] => i = j

\* C27: each temporal-memory entry yields at most one TrainingExample.  No
\* entry has two examples, an entry that has an example is no longer in
\* temporal memory, and each step's new examples are entries that were in
\* temporal memory (or the entry recordAction was pushing) and had no example
\* yet, whichever of giveManualReward, giveManualPunishment and the timeout
\* check converts them.
C27_EntryConvertedAtMostOnce ==
    /\ [](NoDuplicates(trainingData))
    /\ [](Range(trainingData) \cap Range(temporalMemory) = {})
    /\ [][/\ SubSeq(trainingData', 1, Len(trainingData)) = trainingData
          /\ Range(Converted) \subseteq Range(temporalMemory) \cup {clock}
          /\ Range(Converted) \cap Range(trainingData) = {}
          /\ Range(Converted) \cap Range(temporalMemory') = {}]_vars

\* C27 happens: manual feedback converted the entries of 0 and 200 ms; ten
\* seconds after it the timeout check converted the entries recorded since,
\* those of 400 ms and of its own recordAction, and nothing else
C27_Witness ==
    /\ nnLast.op = "recordAction"
    /\ nnLast.reward = "zero"
    /\ trainingData = <<0, 1, 2, 2 + idleGap>>
    /\ temporalMemory = <<>>
    /\ lastTrainingEvent = 2 + idleGap

\* the steps that are training events of the temporal memory
TrainingEventOps == {"giveManualReward", "giveManualPunishment"}

AcceptedEntries == Range(temporalMemory) \cup Range(trainingData)

TrainerState == <<scenario, autoIsActive, autoTimer, intervalTimers, autoInterval>>

\* C30: AutoTrainer start and stop are idempotent.  Over any sequence of
\* start, stop, setScenario, setInterval and dispose calls at most one
\* interval timer is set, isActive holds exactly when the trainer holds a
\* timer (and then that timer is the one set), an active trainer has a
\* scenario, a start while running or without a scenario changes nothing, and
\* a stop while stopped changes nothing.
C30_StartStopIdempotent ==
    /\ [](intervalTimers <= 1)
    /\ [](autoIsActive <=> autoTimer)
    /\ [](autoTimer <=> intervalTimers = 1)
    /\ [](autoIsActive => scenario)
    /\ [][lastStep'.op = "start" /\ (autoIsActive \/ ~scenario) =>
             TrainerState' = TrainerState]_vars
    /\ [][lastStep'.op = "start" /\ ~autoIsActive /\ scenario =>
             autoIsActive' /\ autoTimer' /\ intervalTimers' = 1]_vars
    /\ [][lastStep'.op = "stop" /\ ~autoIsActive =>
             TrainerState' = TrainerState]_vars
    /\ [][lastStep'.op \in {"stop", "dispose"} =>
             ~autoIsActive' /\ ~autoTimer' /\ intervalTimers' = 0]_vars

\* C30 happens: start was called on a trainer whose scenario had been taken
\* away after setInterval had changed its interval, and set no timer
C30_Witness ==
    /\ lastStep.op = "start"
    /\ ~scenario
    /\ ~autoIsActive
    /\ ~autoTimer
    /\ intervalTimers = 0
    /\ autoInterval # 200

\* C31: a failure thrown by the scenario's predicate during an AutoTrainer
\* tick is caught within the tick: the step changes nothing of the trainer
\* (isActive, timer, the interval timer, scenario, interval), sends no event
\* and touches no state of the App, and afterwards the trainer is active with
\* its interval timer armed, so that the next tick is evaluated again.
\* The event handler the predicate feeds runs inside the same try block and
\* has a try/catch of its own; the trainer is unchanged by every tick,
\* whatever the handler did
C31_TickFailureIsCaught ==
    [][lastStep'.op = "autoTick" =>
          /\ UNCHANGED <<autoIsActive, autoTimer, intervalTimers, scenario, autoInterval>>
          /\ lastStep'.threw =>
                /\ lastStep'.evaluated
                /\ autoIsActive' /\ autoTimer' /\ intervalTimers' > 0
                /\ AutoTickEvaluates'
                /\ lastStep'.event = "none" /\ lastStep'.forwarded = "none"
                /\ UNCHANGED <<stateBuffer, intrinsicPunishmentTimer, rewardFeedback,
                               wrapperIsTraining, fitsInFlight, delivered>>]_vars

\* C31 happens: the predicate threw in a tick of an active trainer whose
\* interval was changed, and the trainer is still active with its one timer
C31_Witness ==
    /\ lastStep.op = "autoTick"
    /\ lastStep.threw
    /\ autoIsActive /\ autoTimer /\ intervalTimers = 1
    /\ autoInterval = 500

\* C32: getCachedPrediction returns the cached result exactly when there is
\* one and it is less than 50 ms old, and null otherwise: it returns the
\* result when called straight after a predict that completed, null once 50 ms
\* or more have passed since, and a predict that failed leaves the cache and
\* its age as they were
C32_CachedPredictionYoungerThan50ms ==
    [][/\ wLast'.op = "getCachedPrediction" =>
             /\ wLast'.returned <=> (cachedPrediction /\ cacheAge < predictionCacheTimeout)
             /\ cacheAge >= predictionCacheTimeout => ~wLast'.returned
             /\ (wLast.op = "predict" /\ ~wLast.threw) => wLast'.returned
             /\ UNCHANGED <<cachedPrediction, cacheAge>>
       /\ (wLast'.op = "predict" /\ wLast'.threw) => UNCHANGED <<cachedPrediction, cacheAge>>
       /\ (wLast'.op = "predict" /\ ~wLast'.threw) => cachedPrediction' /\ cacheAge' = 0]_vars

\* C32 happens: getCachedPrediction returned a result that was neither new
\* nor 50 ms old
C32_Witness ==
    /\ wLast.op = "getCachedPrediction"
    /\ wLast.returned
    /\ cacheAge > 0
    /\ cacheAge < predictionCacheTimeout

\* C33: the state buffer never holds more than 80 states.  An addState on a
\* buffer of fewer than 80 states appends the state; on a full buffer it
\* leaves 80 states: the former second to last ones in their order, then the
\* new state, so that exactly the oldest state is gone
C33_BufferAtMost80EvictsOldest ==
    /\ [](Len(stateBuffer) <= maxBufferSize)
    /\ [][lastStep'.op = "addState" =>
             LET new == lastStep'.appended
             IN  IF Len(stateBuffer) < maxBufferSize
                 THEN stateBuffer' = Append(stateBuffer, new)
                 ELSE /\ Len(stateBuffer') = maxBufferSize
                      /\ stateBuffer'[maxBufferSize] = new
                      /\ \A i \in 1..(maxBufferSize - 1) :
                            stateBuffer'[i] = stateBuffer[i + 1]
                      /\ stateBuffer[1] \notin Range(stateBuffer')]_vars

\* C33 happens: addState has just evicted a state from a full buffer
C33_Witness ==
    /\ lastStep.op = "addState"
    /\ Len(stateBuffer) = maxBufferSize
    /\ stateBuffer[1] > 1
    /\ stateBuffer[maxBufferSize] = lastStep.appended

\* C34: the NeuralNetwork holds a shadow model only during a training cycle:
\* whenever isTraining is false, trainingModel is null
C34_ShadowOnlyWhileTraining ==
    ~isTraining => trainingModel = NoModel

\* C34 happens: a training cycle that held a shadow model has ended by a
\* failing fit, and the shadow model is gone
C34_Witness ==
    /\ nnLast.op = "fitFailed"
    /\ nnLast.shadow # NoModel
    /\ ~isTraining
    /\ trainingModel = NoModel

\* C35: giveManualReward and giveManualPunishment convert every entry of the
\* temporal memory recorded since the previous training event: after the call
\* the memory holds no entry whose timestamp is the previous training event's
\* or later
C35_ManualFeedbackConvertsAllSinceLastEvent ==
    [][nnLast'.op \in {"giveManualReward", "giveManualPunishment"} =>
          \A i \in 1..Len(temporalMemory') :
             temporalMemory'[i] < lastTrainingEvent]_vars

\* C36: every training cycle that starts ends: isTraining of the
\* NeuralNetworkWrapper and of the NeuralNetwork, once true, becomes false
\* again, also when the model is reset, switched or disposed during the cycle
C36_TrainingCycleEnds ==
    /\ wrapperIsTraining ~> ~wrapperIsTraining
    /\ isTraining ~> ~isTraining

\* C36 happens: the wrapper's model was reset while its fit was awaited and
\* the NeuralNetwork disposed while its shadow model was being fitted
C36_Witness ==
    /\ wrapperIsTraining
    /\ fitsInFlight > 0
    /\ wLast.op = "resetModel"
    /\ isTraining
    /\ \E s \in CycleSlots : cycles[s].pc = "fitting"
    /\ model = NoModel

\* C37: at most one intrinsic timer is pending at any time, and it is the one
\* the RewardManager holds the handle of: every timer set earlier was cleared
\* or has fired, so that no timer the RewardManager cancelled or replaced is
\* left to fire
C37_AtMostOneIntrinsicTimer ==
    /\ pendingTimeouts <= 1
    /\ pendingTimeouts = (IF intrinsicPunishmentTimer # NoTimer THEN 1 ELSE 0)

\* C37 happens: a reward re-armed the timer a second after it was armed, and
\* the one timer pending is the new one
C37_Witness ==
    /\ lastStep.op = "handleReward"
    /\ lastStep.event = "reward"
    /\ now > 0
    /\ lastStep.rmTimer = now + config.intrinsicTimeframe
    /\ intrinsicPunishmentTimer = now + config.intrinsicTimeframe
    /\ pendingTimeouts = 1

\* C38: trainOnExperience does not change the rolling sequence buffer predict
\* uses: a call that goes on to fit the model leaves the buffer's contents as
\* they were before it
C38_TrainingKeepsSequenceBuffer ==
    [][fitsInFlight' = fitsInFlight + 1 => sequenceBuffer' = sequenceBuffer]_vars

\* C39: after resetModel or switchArchitecture, getCachedPrediction never
\* returns a prediction the disposed model computed: called straight after
\* the model was rebuilt, when every result cached is one of the disposed
\* model, it returns null
C39_NoCachedPredictionOfDisposedModel ==
    [][(wLast.rebuilt /\ wLast'.op = "getCachedPrediction") => ~wLast'.returned]_vars

\* C40: an updateConfig that leaves intrinsicPunishment and intrinsicTimeframe
\* as they were leaves the deadline of the pending intrinsic timer unchanged
C40_UnrelatedConfigKeepsDeadline ==
    [][(/\ lastStep'.op = "updateConfig"
        /\ config'.intrinsicPunishment = config.intrinsicPunishment
        /\ config'.intrinsicTimeframe = config.intrinsicTimeframe
        /\ intrinsicPunishmentTimer # NoTimer)
       => intrinsicPunishmentTimer' = intrinsicPunishmentTimer]_vars

=============================================================================
